---- MODULE Spec2Model ----
(***************************************************************************)
(* Telemetry pipeline: the wire codec of protocol_M_M.py and the           *)
(* per-device reordering / gap-reconciliation engine of server_besheer.py. *)
(***************************************************************************)
EXTENDS Integers, Sequences, FiniteSets, TLC

VARIABLES
    device_states,         \* Server.device_states: device id -> state record
    device_order,          \* the keys of device_states in insertion (dict) order
    rows,                  \* rows written to the primary log, in order
    batch_rows,            \* rows written to the batch-details log, in order
    packet_count,          \* Server.packet_count
    packets_received,      \* Server.packets_received
    total_bytes_received,  \* Server.total_bytes_received
    duplicate_count,       \* Server.duplicate_count
    sequence_gaps,         \* Server.sequence_gaps
    last_packet_time,      \* Server.last_packet_time (-1 = None)
    auto_shutdown,         \* Server.auto_shutdown_timeout as constructed (0 = None)
    now,                   \* wall clock, whole seconds
    running,               \* the ingress loop has not left its while loop
    arrivals,              \* history: datagrams accepted by decode_packet, in order
    last_op,               \* history: what the last handler run did
    frame,                 \* codec harness: the frame handed to encode_packet
    wire,                  \* codec harness: result of encode_packet / the bytes on the wire
    back,                  \* codec harness: result of decode_packet
    cpc                    \* codec harness: position ("frame", "wire", "done")

vars == <<device_states, device_order, rows, batch_rows, packet_count, packets_received, total_bytes_received,
          duplicate_count, sequence_gaps, last_packet_time, auto_shutdown, now, running,
          arrivals, last_op, frame, wire, back, cpc>>

serverVars == <<device_states, device_order, rows, batch_rows, packet_count, packets_received, total_bytes_received,
                duplicate_count, sequence_gaps, last_packet_time, auto_shutdown, now, running,
                arrivals, last_op>>

codecVars == <<frame, wire, back, cpc>>

(***************************************************************************)
(* protocol_M_M.py: constants                                              *)
(***************************************************************************)
VERSION == 1
MSG_INIT == 0
MSG_DATA == 1
MSG_HEARTBEAT == 2
SENSOR_TEMP == 1
SENSOR_HUM == 2
SENSOR_VOLT == 3
ALLOWED_DEVICE_IDS == {3001, 3002, 3003}
HEADER_SIZE == 13
READING_SIZE == 5
PAYLOAD_LIMIT == 200
FLAG_BATCHING == 1

\* a faulty membership test that admits every device id
device_any(device_id) == TRUE

\* device_id in ALLOWED_DEVICE_IDS
device_allowed(device_id) == device_id \in ALLOWED_DEVICE_IDS

(***************************************************************************)
(* Python values.  A float is [t, n, e]: the number n * 2^e with n odd     *)
(* (or n = 0, e = 0), or NaN, or an infinity.  An Optional is <<>> (None)  *)
(* or <<x>>.  A raising call is Fail(exception), a returning one Ok(value).*)
(***************************************************************************)
Ok(v) == [ok |-> TRUE, val |-> v, err |-> ""]
Fail(e) == [ok |-> FALSE, val |-> <<>>, err |-> e]

RECURSIVE Norm(_, _)
Norm(n, e) == IF n = 0 THEN [t |-> "num", n |-> 0, e |-> 0]
              ELSE IF n % 2 = 0 THEN Norm(n \div 2, e + 1)
              ELSE [t |-> "num", n |-> n, e |-> e]
Num(n) == Norm(n, 0)
NaN == [t |-> "nan", n |-> 0, e |-> 0]
PosInf == [t |-> "inf", n |-> 1, e |-> 0]
NegInf == [t |-> "inf", n |-> -1, e |-> 0]
isfinite(v) == v.t = "num"

Abs(n) == IF n < 0 THEN -n ELSE n
RECURSIVE BitLen(_)
BitLen(a) == IF a = 0 THEN 0 ELSE 1 + BitLen(a \div 2)

\* a \div 2^sh rounded to nearest, ties to even (IEEE-754 default rounding)
RoundShift(a, sh) ==
    IF sh <= 0 THEN a * 2^(-sh)
    ELSE LET q == a \div 2^sh
             r == a % 2^sh
             half == 2^(sh - 1)
         IN IF r > half \/ (r = half /\ q % 2 = 1) THEN q + 1 ELSE q

(***************************************************************************)
(* struct.pack / struct.unpack, big-endian ('!')                           *)
(***************************************************************************)
Byte == 0..255
pack_B(n) == IF n \in Byte THEN Ok(<<n>>) ELSE Fail("struct.error")
pack_H(n) == IF n >= 0 /\ n < 65536 THEN Ok(<<n \div 256, n % 256>>) ELSE Fail("struct.error")
\* 'I' is 32 bits wide; the model's integers stop at 2^31 - 1
pack_I(n) == IF n >= 0
             THEN Ok(<<n \div 16777216, (n \div 65536) % 256, (n \div 256) % 256, n % 256>>)
             ELSE Fail("struct.error")
unpack_H(b) == b[1] * 256 + b[2]
unpack_I(b) == b[1] * 16777216 + b[2] * 65536 + b[3] * 256 + b[4]

\* the four bytes of sign s, biased exponent E and 23-bit fraction f
F32Bytes(s, E, f) == <<s * 128 + E \div 2, (E % 2) * 128 + f \div 65536,
                       (f \div 256) % 256, f % 256>>

\* struct.pack('!f', v): narrowing a Python float to IEEE-754 single precision
pack_f(v) ==
    IF v.t = "nan" THEN Ok(F32Bytes(0, 255, 4194304))
    ELSE IF v.t = "inf" THEN Ok(F32Bytes(IF v.n < 0 THEN 1 ELSE 0, 255, 0))
    ELSE IF v.n = 0 THEN Ok(F32Bytes(0, 0, 0))
    ELSE LET s == IF v.n < 0 THEN 1 ELSE 0
             a == Abs(v.n)
             k == BitLen(a)
             m0 == RoundShift(a, k - 24)            \* 24 significant bits
             carry == m0 = 16777216
             m == IF carry THEN 8388608 ELSE m0
             x == IF carry THEN v.e + k ELSE v.e + k - 1   \* exponent of the leading bit
         IN IF x > 127 THEN Fail("OverflowError")
            ELSE IF x < -126 THEN Ok(F32Bytes(s, 0, RoundShift(m, -(x + 126))))
            ELSE Ok(F32Bytes(s, x + 127, m - 8388608))

\* a faulty unpack_f, its exponent bias one short: every nonzero value comes back doubled
unpack_f_bias(b) ==
    LET s == b[1] \div 128
        E == (b[1] % 128) * 2 + b[2] \div 128
        f == (b[2] % 128) * 65536 + b[3] * 256 + b[4]
        sg == IF s = 1 THEN -1 ELSE 1
    IN IF E = 255 THEN (IF f = 0 THEN (IF s = 1 THEN NegInf ELSE PosInf) ELSE NaN)
       ELSE IF E = 0 THEN Norm(sg * f, -148)
       ELSE Norm(sg * (8388608 + f), E - 149)

\* struct.unpack('!f', b)
unpack_f(b) ==
    LET s == b[1] \div 128
        E == (b[1] % 128) * 2 + b[2] \div 128
        f == (b[2] % 128) * 65536 + b[3] * 256 + b[4]
        sg == IF s = 1 THEN -1 ELSE 1
    IN IF E = 255 THEN (IF f = 0 THEN (IF s = 1 THEN NegInf ELSE PosInf) ELSE NaN)
       ELSE IF E = 0 THEN Norm(sg * f, -149)
       ELSE Norm(sg * (8388608 + f), E - 150)

\* data[i:j] of Python (0-based, end exclusive, clipped)
Slice(data, i, j) ==
    LET hi == IF j < Len(data) THEN j ELSE Len(data)
    IN IF i >= hi THEN <<>> ELSE SubSeq(data, i + 1, hi)

(***************************************************************************)
(* protocol_M_M.py: TelemetryPacket, SensorReading, encode / decode        *)
(***************************************************************************)
SensorReading(sensor_type, value) == [sensor_type |-> sensor_type, value |-> value]

TelemetryPacket(version, msg_type, device_id, seq_num, timestamp, readings, flags) ==
    [version |-> version, msg_type |-> msg_type, device_id |-> device_id,
     seq_num |-> seq_num, timestamp |-> timestamp, readings |-> readings, flags |-> flags]

MSG_TYPES == {MSG_INIT, MSG_DATA, MSG_HEARTBEAT}
SENSOR_TYPES == {SENSOR_TEMP, SENSOR_HUM, SENSOR_VOLT}

\* a faulty encode_header that packs '!BBHIBI': flags after the sequence number
encode_header_tabled(version, msg_type, flags, device_id, seq_num, timestamp) ==
    LET parts == <<pack_B(version), pack_B(msg_type), pack_H(device_id),
                   pack_I(seq_num), pack_B(flags), pack_I(timestamp)>>
    IN IF \E i \in 1..6 : ~parts[i].ok THEN Fail("struct.error")
       ELSE Ok(parts[1].val \o parts[2].val \o parts[3].val \o
               parts[4].val \o parts[5].val \o parts[6].val)

\* struct.pack('!BBBHII', version, msg_type, flags, device_id, seq_num, timestamp)
encode_header(version, msg_type, flags, device_id, seq_num, timestamp) ==
    LET parts == <<pack_B(version), pack_B(msg_type), pack_B(flags),
                   pack_H(device_id), pack_I(seq_num), pack_I(timestamp)>>
    IN IF \E i \in 1..6 : ~parts[i].ok THEN Fail("struct.error")
       ELSE Ok(parts[1].val \o parts[2].val \o parts[3].val \o
               parts[4].val \o parts[5].val \o parts[6].val)

\* struct.pack('!Bf', sensor_type, value)
encode_reading(sensor_type, value) ==
    LET b == pack_B(sensor_type)
        f == pack_f(value)
    IN IF ~b.ok THEN b ELSE IF ~f.ok THEN f ELSE Ok(b.val \o f.val)

\* the loop `for reading in packet.readings: data += encode_reading(...)`
EncodeReadings(readings) ==
    LET parts == [i \in 1..Len(readings) |->
                     encode_reading(readings[i].sensor_type, readings[i].value)]
        bad == {i \in 1..Len(readings) : ~parts[i].ok}
    IN IF bad # {} THEN parts[CHOOSE i \in bad : \A j \in bad : i <= j]
       ELSE Ok([n \in 1..(Len(readings) * READING_SIZE) |->
                   parts[((n - 1) \div READING_SIZE) + 1].val[((n - 1) % READING_SIZE) + 1]])

\* a faulty validation loop that passes every reading
NoBadReading(readings) == 0

\* the first reading the validation loop of encode_packet rejects (0 = none)
FirstBadReading(readings) ==
    LET bad == {i \in 1..Len(readings) :
                   \/ readings[i].sensor_type \notin SENSOR_TYPES
                   \/ ~isfinite(readings[i].value)}
    IN IF bad = {} THEN 0 ELSE CHOOSE i \in bad : \A j \in bad : i <= j

encode_packet(packet) ==
    IF packet.version # VERSION THEN Fail("Invalid version")
    ELSE IF packet.msg_type \notin MSG_TYPES THEN Fail("Unknown message type")
    ELSE IF ~device_allowed(packet.device_id) THEN Fail("Invalid device ID")
    ELSE IF packet.seq_num < 0 THEN Fail("Invalid sequence number")
    ELSE
      LET data == encode_header(packet.version, packet.msg_type, packet.flags,
                                packet.device_id, packet.seq_num, packet.timestamp)
      IN IF ~data.ok THEN data
         ELSE IF packet.msg_type \in {MSG_INIT, MSG_HEARTBEAT}
         THEN (IF Len(packet.readings) # 0 THEN Fail("packets must not contain readings")
               ELSE data)
         ELSE
           LET reading_count == Len(packet.readings)
               total_size == HEADER_SIZE + 1 + reading_count * READING_SIZE
               bad == FirstBadReading(packet.readings)
               body == EncodeReadings(packet.readings)
           IN IF reading_count = 0 THEN Fail("DATA packet must contain at least one reading")
              ELSE IF total_size > PAYLOAD_LIMIT THEN Fail("Packet exceeds payload limit")
              ELSE IF bad # 0
              THEN (IF packet.readings[bad].sensor_type \notin SENSOR_TYPES
                    THEN Fail("Invalid sensor type") ELSE Fail("Invalid reading value"))
              ELSE IF ~body.ok THEN body
              ELSE Ok(data.val \o <<reading_count>> \o body.val)

\* struct.unpack('!BBBHII', data[:HEADER_SIZE]) as
\* <<version, msg_type, flags, device_id, seq_num, timestamp>>
decode_header(data) ==
    IF Len(data) < HEADER_SIZE THEN Fail("Data too short for header")
    ELSE Ok(<<data[1], data[2], data[3], unpack_H(Slice(data, 3, 5)),
              unpack_I(Slice(data, 5, 9)), unpack_I(Slice(data, 9, 13))>>)

\* struct.unpack('!Bf', data[:READING_SIZE]) as <<sensor_type, value>>
decode_reading(data) ==
    IF Len(data) < READING_SIZE THEN Fail("Not enough bytes for reading")
    ELSE Ok(<<data[1], unpack_f(Slice(data, 1, 5))>>)

\* the reading loop of decode_packet; it runs once payload_len = expected_size is
\* established, so its offset and leftover checks cannot fail
DecodeReadings(payload, reading_count) ==
    LET parts == [i \in 1..reading_count |->
                     decode_reading(Slice(payload, 1 + (i - 1) * READING_SIZE,
                                          1 + i * READING_SIZE))]
        bad == {i \in 1..reading_count :
                   \/ ~parts[i].ok
                   \/ parts[i].val[1] \notin SENSOR_TYPES
                   \/ ~isfinite(parts[i].val[2])}
        first == CHOOSE i \in bad : \A j \in bad : i <= j
    IN IF bad # {}
       THEN (IF ~parts[first].ok THEN parts[first]
             ELSE IF parts[first].val[1] \notin SENSOR_TYPES THEN Fail("Invalid sensor_type")
             ELSE Fail("Invalid reading value"))
       ELSE Ok([i \in 1..reading_count |-> SensorReading(parts[i].val[1], parts[i].val[2])])

\* a faulty expected_size that forgets the reading_count byte
expected_size_bare(reading_count) == reading_count * READING_SIZE

\* expected_size = 1 + reading_count * READING_SIZE
expected_size_of(reading_count) == 1 + reading_count * READING_SIZE

decode_packet(data) ==
    LET h == decode_header(data)
    IN IF ~h.ok THEN h
       ELSE
         LET version == h.val[1]
             msg_type == h.val[2]
             flags == h.val[3]
             device_id == h.val[4]
             seq_num == h.val[5]
             timestamp == h.val[6]
             payload == Slice(data, HEADER_SIZE, Len(data))
             payload_len == Len(payload)
         IN IF version # VERSION THEN Fail("Version mismatch")
            ELSE IF msg_type \notin MSG_TYPES THEN Fail("Unknown msg_type")
            ELSE IF ~device_allowed(device_id) THEN Fail("Invalid device_id")
            ELSE IF seq_num < 0 THEN Fail("Invalid sequence number")
            ELSE IF msg_type \in {MSG_INIT, MSG_HEARTBEAT}
            THEN (IF payload_len # 0 THEN Fail("packets must have no payload")
                  ELSE Ok(TelemetryPacket(version, msg_type, device_id, seq_num,
                                          timestamp, <<>>, flags)))
            ELSE IF payload_len < 1 THEN Fail("DATA packet missing reading_count byte")
            ELSE
              LET reading_count == payload[1]
                  expected_size == expected_size_of(reading_count)
                  readings == DecodeReadings(payload, reading_count)
              IN IF reading_count <= 0 THEN Fail("DATA packet must contain at least 1 reading")
                 ELSE IF payload_len < expected_size THEN Fail("Truncated DATA packet")
                 ELSE IF payload_len > expected_size THEN Fail("Extra bytes in DATA packet")
                 ELSE IF ~readings.ok THEN readings
                 ELSE Ok(TelemetryPacket(version, msg_type, device_id, seq_num,
                                         timestamp, readings.val, flags))

\* the bytes encode_packet's packing steps give for a frame when its validation
\* is left out: the datagram a non-conforming sender puts on the wire
Serialize(packet) ==
    LET data == encode_header(packet.version, packet.msg_type, packet.flags,
                              packet.device_id, packet.seq_num, packet.timestamp)
        body == EncodeReadings(packet.readings)
        count == pack_B(Len(packet.readings))
    IN IF ~data.ok THEN data
       ELSE IF packet.msg_type # MSG_DATA /\ Len(packet.readings) = 0 THEN data
       ELSE IF ~body.ok THEN body
       ELSE IF ~count.ok THEN count
       ELSE Ok(data.val \o count.val \o body.val)

(***************************************************************************)
(* server_besheer.py: configuration (Server.__init__ arguments)            *)
(***************************************************************************)
max_buffer_size == 2
max_gap_wait_seconds == 1
auto_shutdown_timeout == 4
\* run() sweeps after every SweepEvery-th datagram (100 in the source)
SweepEvery == 3

None == <<>>
Some(x) == <<x>>

(***************************************************************************)
(* Float arithmetic and "%.2f" / "%.3f" formatting, on exact fractions     *)
(* [num, den] (den > 0); a formatted number is its integer count of        *)
(* hundredths / thousandths, '<null>' is None.                             *)
(***************************************************************************)
Rat(v) == IF v.e >= 0 THEN [num |-> v.n * 2^(v.e), den |-> 1]
          ELSE [num |-> v.n, den |-> 2^(-v.e)]
RECURSIVE GCD(_, _)
GCD(a, b) == IF b = 0 THEN a ELSE GCD(b, a % b)
\* the same fraction in lowest terms
Lowest(num, den) ==
    LET g == GCD(IF num < 0 THEN -num ELSE num, den)
    IN [num |-> num \div g, den |-> den \div g]
RAdd(a, b) == Lowest(a.num * b.den + b.num * a.den, a.den * b.den)
RSub(a, b) == Lowest(a.num * b.den - b.num * a.den, a.den * b.den)
RMulInt(a, k) == Lowest(a.num * k, a.den)
RDivInt(a, k) == Lowest(a.num, a.den * k)
RLeq(a, b) == a.num * b.den <= b.num * a.den
RECURSIVE RSum(_)
RSum(xs) == IF xs = <<>> THEN [num |-> 0, den |-> 1] ELSE RAdd(Head(xs), RSum(Tail(xs)))
RMin(xs) == CHOOSE x \in {xs[i] : i \in 1..Len(xs)} : \A j \in 1..Len(xs) : RLeq(x, xs[j])
RMax(xs) == CHOOSE x \in {xs[i] : i \in 1..Len(xs)} : \A j \in 1..Len(xs) : RLeq(xs[j], x)
RoundHalfEven(num, den) ==
    LET q == num \div den
        r == num % den
    IN IF 2 * r > den \/ (2 * r = den /\ q % 2 = 1) THEN q + 1 ELSE q
Fmt(a, scale) == RoundHalfEven(a.num * scale, a.den)
\* f"{x:.2f}" if x is not None else '<null>'
FmtOpt(x) == IF x = None THEN None ELSE Some(Fmt(x[1], 100))

(***************************************************************************)
(* server_besheer.py: Server state.  st is the mutable state a handler     *)
(* works on: device_states, device_order, rows, batch_rows, the two        *)
(* process counters it touches, and op, the record of what it did.         *)
(***************************************************************************)
NewDeviceState ==
    [last_seq |-> -1, packets |-> 0, duplicates |-> 0, gaps |-> 0, total_gap_packets |-> 0,
     bytes |-> 0, buffer |-> <<>>, last_values |-> None, gap_start_time |-> None,
     is_batch_mode |-> FALSE]

NoOp == [kind |-> "none", data |-> <<>>, dev |-> 0, path |-> "", full |-> FALSE,
         evicted |-> None, inserted |-> None, closures |-> <<>>]

\* self.device_states[device_id] of a defaultdict: the entry is created on first access
Touch(st, device_id) ==
    IF device_id \in DOMAIN st.device_states THEN st
    ELSE [st EXCEPT !.device_states = [d \in DOMAIN st.device_states \cup {device_id} |->
                                          IF d = device_id THEN NewDeviceState
                                          ELSE st.device_states[d]],
                    !.device_order = Append(st.device_order, device_id)]

Row(timestamp, device_id, seq_num, msg_type, is_dup, is_gap, vals) ==
    [timestamp |-> timestamp, device_id |-> device_id, seq_num |-> seq_num,
     msg_type |-> msg_type, is_dup |-> is_dup, is_gap |-> is_gap, vals |-> vals]

NULLS == <<None, None, None>>

\* the last value of each sensor type in the packet, as (temp, humid, volt)
get_packet_values(packet) ==
    [k \in 1..3 |->
        LET idx == {i \in 1..Len(packet.readings) : packet.readings[i].sensor_type = k}
        IN IF idx = {} THEN None
           ELSE Some(packet.readings[CHOOSE i \in idx : \A j \in idx : j <= i].value)]

\* the first value of each sensor type in the packet
get_first_packet_values(packet) ==
    [k \in 1..3 |->
        LET idx == {i \in 1..Len(packet.readings) : packet.readings[i].sensor_type = k}
        IN IF idx = {} THEN None
           ELSE Some(packet.readings[CHOOSE i \in idx : \A j \in idx : i <= j].value)]

\* readings: a sequence of [sensor_type, value] with value an exact fraction
log_batch_details(st, timestamp, device_id, seq_num, readings, is_dup, is_gap) ==
    IF readings = <<>> THEN st
    ELSE
      LET group(s_type) ==
              LET sel == SelectSeq(readings, LAMBDA r : r.sensor_type = s_type)
              IN [i \in 1..Len(sel) |-> sel[i].value]
          line(i) ==
              LET sensor_values == group(readings[i].sensor_type)
              IN [timestamp |-> timestamp, device_id |-> device_id, seq_num |-> seq_num,
                  is_dup |-> is_dup, is_gap |-> is_gap, batch_size |-> Len(readings),
                  reading_index |-> i, sensor_type |-> readings[i].sensor_type,
                  value |-> Fmt(readings[i].value, 1000),
                  batch_avg |-> Fmt(RDivInt(RSum(sensor_values), Len(sensor_values)), 1000),
                  batch_min |-> Fmt(RMin(sensor_values), 1000),
                  batch_max |-> Fmt(RMax(sensor_values), 1000)]
      IN [st EXCEPT !.batch_rows = @ \o [i \in 1..Len(readings) |-> line(i)]]

log_data_packet(st, packet, timestamp_str, is_dup, is_gap) ==
    LET values == get_packet_values(packet)
        is_batched == (packet.flags % 2) = FLAG_BATCHING
        st1 == [st EXCEPT !.device_states[packet.device_id].is_batch_mode = is_batched]
        rats == [i \in 1..Len(packet.readings) |->
                    [sensor_type |-> packet.readings[i].sensor_type,
                     value |-> Rat(packet.readings[i].value)]]
        st2 == IF is_batched
               THEN log_batch_details(st1, timestamp_str, packet.device_id, packet.seq_num,
                                      rats, is_dup, is_gap)
               ELSE st1
        avg(k) == LET sel == SelectSeq(rats, LAMBDA r : r.sensor_type = k)
                  IN IF sel = <<>> THEN None
                     ELSE Some(RDivInt(RSum([i \in 1..Len(sel) |-> sel[i].value]), Len(sel)))
        strs == IF is_batched THEN [k \in 1..3 |-> FmtOpt(avg(k))]
                ELSE [k \in 1..3 |-> IF values[k] = None THEN None
                                     ELSE Some(Fmt(Rat(values[k][1]), 100))]
    IN [st2 EXCEPT !.rows = Append(@, Row(timestamp_str, packet.device_id, packet.seq_num,
                                          "DATA", is_dup, is_gap, strs))]

interpolate_and_log(st, device_id, start_seq, end_seq, start_vals0, end_vals, timestamp_str, is_duplicate, is_gap, batch_size) ==
    LET count == end_seq - start_seq - 1
        start_vals == IF start_vals0 = None THEN end_vals ELSE start_vals0
        mode_batch == batch_size > 1
        divisor == IF mode_batch THEN count * batch_size + 1 ELSE count + 1
        has_step(i) == start_vals[i] # None /\ end_vals[i] # None
        \* current_vals[i] after j additions of steps[i]
        current(i, j) ==
            IF has_step(i)
            THEN Some(RAdd(Rat(start_vals[i][1]),
                           RDivInt(RMulInt(RSub(Rat(end_vals[i][1]), Rat(start_vals[i][1])), j),
                                   divisor)))
            ELSE IF start_vals[i] = None THEN None ELSE Some(Rat(start_vals[i][1]))
        normal_row(p) == Row(timestamp_str, device_id, start_seq + p, "DATA", is_duplicate,
                             is_gap, [i \in 1..3 |-> FmtOpt(current(i, p))])
        \* batch mode, synthesized packet p (1-based): sub-steps (p-1)*batch_size + 1 .. p*batch_size
        sub(p, r) == (p - 1) * batch_size + r
        readings_of(p) ==
            LET all == [n \in 1..(3 * batch_size) |->
                           [sensor_type |-> ((n - 1) % 3) + 1,
                            opt |-> current(((n - 1) % 3) + 1, sub(p, ((n - 1) \div 3) + 1))]]
                kept == SelectSeq(all, LAMBDA x : x.opt # None)
            IN [n \in 1..Len(kept) |-> [sensor_type |-> kept[n].sensor_type,
                                        value |-> kept[n].opt[1]]]
        avg(p, i) ==
            IF current(i, 1) = None THEN None
            ELSE Some(RDivInt(RSum([r \in 1..batch_size |-> current(i, sub(p, r))[1]]),
                              batch_size))
        batch_row(p) == Row(timestamp_str, device_id, start_seq + p, "DATA", is_duplicate,
                            is_gap, [i \in 1..3 |-> FmtOpt(avg(p, i))])
        RECURSIVE batch_from(_, _)
        batch_from(s, p) ==
            IF p > count THEN s
            ELSE LET s1 == log_batch_details(s, timestamp_str, device_id, start_seq + p,
                                             readings_of(p), is_duplicate, is_gap)
                 IN batch_from([s1 EXCEPT !.rows = Append(@, batch_row(p))], p + 1)
    IN IF count <= 0 THEN st
       ELSE IF mode_batch THEN batch_from(st, 1)
       ELSE [st EXCEPT !.rows = @ \o [p \in 1..count |-> normal_row(p)]]

\* a faulty ordering that leaves the buffer in insertion order
UnsortedByKey(buffer) == buffer

\* OrderedDict(sorted(buffer.items())): the entries in increasing key order
RECURSIVE SortedByKey(_)
SortedByKey(buffer) ==
    IF buffer = <<>> THEN <<>>
    ELSE LET i == CHOOSE i \in 1..Len(buffer) : \A j \in 1..Len(buffer) : buffer[i].key <= buffer[j].key
         IN <<buffer[i]>> \o SortedByKey([j \in 1..(Len(buffer) - 1) |->
                                             IF j < i THEN buffer[j] ELSE buffer[j + 1]])

BufferKeys(buffer) == {buffer[i].key : i \in 1..Len(buffer)}

\* a faulty capacity test that lets the buffer reach max_buffer_size + 1
buffer_full_late(buffer) == Len(buffer) > max_buffer_size

\* len(buffer) >= self.max_buffer_size
buffer_full(buffer) == Len(buffer) >= max_buffer_size

\* a faulty gap timer that restarts on every buffered frame
gap_restarted(gap_start_time, timestamp) == Some(timestamp)

\* if device_state['gap_start_time'] is None: device_state['gap_start_time'] = timestamp
gap_started(gap_start_time, timestamp) ==
    IF gap_start_time = None THEN Some(timestamp) ELSE gap_start_time

add_to_buffer(st, packet, timestamp, device_id) ==
    LET device_state == st.device_states[device_id]
        buffer == device_state.buffer
        current_seq == packet.seq_num
        full == buffer_full(buffer)
        popped == IF full THEN Tail(buffer) ELSE buffer      \* buffer.pop(next(iter(buffer)))
        entry == [key |-> current_seq, packet |-> packet, timestamp |-> timestamp,
                  arrival_time |-> timestamp]
        stored == IF \E i \in 1..Len(popped) : popped[i].key = current_seq
                  THEN [i \in 1..Len(popped) |->
                           IF popped[i].key = current_seq THEN entry ELSE popped[i]]
                  ELSE Append(popped, entry)
    IN [st EXCEPT !.device_states[device_id].buffer = SortedByKey(stored),
                  !.device_states[device_id].gap_start_time = gap_started(@, timestamp),
                  !.op.full = full,
                  !.op.evicted = IF full THEN Some(Head(buffer).key) ELSE None,
                  !.op.inserted = Some([before |-> BufferKeys(buffer), key |-> current_seq])]

\* a faulty drain that releases nothing
release_nothing(st, device_id) == st

RECURSIVE release_contiguous(_, _)
release_contiguous(st, device_id) ==
    LET device_state == st.device_states[device_id]
        buffer == device_state.buffer
    IN IF buffer # <<>> /\ Head(buffer).key = device_state.last_seq + 1
       THEN LET item == Head(buffer)
                st1 == [st EXCEPT !.device_states[device_id].buffer = Tail(buffer)]
                st2 == log_data_packet(st1, item.packet, item.timestamp, 0, 0)
            IN release_contiguous(
                   [st2 EXCEPT !.device_states[device_id].last_values =
                                   get_packet_values(item.packet),
                               !.device_states[device_id].last_seq = item.key],
                   device_id)
       ELSE st

\* a faulty drain that leaves the gap timer running when the buffer is empty
process_buffered_keep_timer(st, device_id) == release_contiguous(st, device_id)

process_buffered_packets(st, device_id) ==
    LET st1 == release_contiguous(st, device_id)
    IN IF st1.device_states[device_id].buffer = <<>>
       THEN [st1 EXCEPT !.device_states[device_id].gap_start_time = None]
       ELSE st1

\* a faulty age test under which no buffered entry is ever old enough
never_stale(current_time, arrival_time) == FALSE

\* (current_time - oldest['arrival_time']).total_seconds() > self.max_gap_wait_seconds * 2
stale(current_time, arrival_time) == current_time - arrival_time > max_gap_wait_seconds * 2

\* the body of the loop of _cleanup_old_buffers for one device
cleanup_device(st, device_id, current_time) ==
    LET state == st.device_states[device_id]
        buffer == state.buffer
    IN IF buffer = <<>> THEN st
       ELSE
         LET oldest == Head(buffer)
             first_buff_seq == oldest.key
             first_buff_packet == oldest.packet
             batch_size == Len(first_buff_packet.readings)
             start_vals == state.last_values
             end_vals == get_first_packet_values(first_buff_packet)
             st1 == interpolate_and_log(st, device_id, state.last_seq, first_buff_seq,
                                        start_vals, end_vals, oldest.timestamp, 0, 1, batch_size)
             st2 == [st1 EXCEPT !.device_states[device_id].last_seq = first_buff_seq - 1,
                                !.op.closures = Append(@, [dev |-> device_id,
                                                           L |-> state.last_seq,
                                                           R |-> first_buff_seq,
                                                           at |-> Len(st.rows),
                                                           bat |-> Len(st.batch_rows),
                                                           left |-> start_vals,
                                                           trigger |-> "sweep"])]
         IN IF stale(current_time, oldest.arrival_time)
            THEN process_buffered_packets(st2, device_id)
            ELSE st

RECURSIVE cleanup_from(_, _, _)
cleanup_from(st, i, current_time) ==
    IF i > Len(st.device_order) THEN st
    ELSE cleanup_from(cleanup_device(st, st.device_order[i], current_time), i + 1, current_time)

cleanup_old_buffers(st, current_time) == cleanup_from(st, 1, current_time)

\* a faulty duplicate test that lets a frame at last_seq itself through
seq_below(current_seq, last_seq) == current_seq < last_seq

\* current_seq <= last_seq: the duplicate test of the DATA and HEARTBEAT branches
seq_not_above(current_seq, last_seq) == current_seq <= last_seq

\* a faulty INIT that never moves last_seq backward
init_seq_forward(last_seq, seq_num) == IF seq_num > last_seq THEN seq_num ELSE last_seq

\* device_state['last_seq'] = packet.seq_num
init_seq(last_seq, seq_num) == seq_num

\* _process_telemetry, msg_type == MSG_INIT
process_init(st, packet, timestamp) ==
    LET device_id == packet.device_id
        st1 == [st EXCEPT !.device_states[device_id].last_seq = init_seq(@, packet.seq_num),
                          !.device_states[device_id].last_values = None,
                          !.device_states[device_id].gap_start_time = None,
                          !.rows = Append(@, Row(timestamp, device_id, packet.seq_num,
                                                 "INIT", 0, 0, NULLS)),
                          !.op.path = "init"]
    IN process_buffered_packets(st1, device_id)

\* _process_telemetry, msg_type == MSG_HEARTBEAT
process_heartbeat(st, packet, timestamp) ==
    LET device_id == packet.device_id
        device_state == st.device_states[device_id]
        last_seq == device_state.last_seq
        current_seq == packet.seq_num
        expected_next == last_seq + 1
        gap_size == current_seq - expected_next
        is_gap == IF last_seq # -1 /\ current_seq > expected_next THEN 1 ELSE 0
        hb_row(is_duplicate, gap) ==
            Row(timestamp, device_id, packet.seq_num, "HEARTBEAT", is_duplicate, gap, NULLS)
        st_gap == IF is_gap = 1
                  THEN [st EXCEPT !.device_states[device_id].gaps = @ + 1,
                                  !.device_states[device_id].total_gap_packets = @ + gap_size,
                                  !.sequence_gaps = @ + gap_size,
                                  !.rows = Append(@, hb_row(0, 1))]
                  ELSE st
    IN IF last_seq # -1 /\ seq_not_above(current_seq, last_seq)
       THEN [st EXCEPT !.device_states[device_id].duplicates = @ + 1,
                       !.duplicate_count = @ + 1,
                       !.rows = Append(@, hb_row(1, 0)),
                       !.op.path = "duplicate"]
       ELSE [st_gap EXCEPT !.device_states[device_id].last_seq = current_seq,
                           !.device_states[device_id].gap_start_time = None,
                           !.rows = Append(@, hb_row(0, is_gap)),
                           !.op.path = IF is_gap = 1 THEN "heartbeat gap" ELSE "in-order"]

\* a faulty choice that always ends the gap at the arriving frame
use_arriving(buffer) == FALSE

\* `if buffer:` the gap ends at the first buffered frame, else at the arriving one
use_buffered(buffer) == buffer # <<>>

\* _process_telemetry, DATA, "3. Gap Detected" with gap_age > max_gap_wait_seconds
process_timeout(st, packet, timestamp) ==
    LET device_id == packet.device_id
        device_state == st.device_states[device_id]
        buffer == device_state.buffer
        current_seq == packet.seq_num
        last_seq == device_state.last_seq
        next_avail_seq == IF use_buffered(buffer) THEN Head(buffer).key ELSE current_seq
        next_packet == IF use_buffered(buffer) THEN Head(buffer).packet ELSE packet
        batch_size == Len(next_packet.readings)
        start_vals == device_state.last_values
        end_vals == get_first_packet_values(next_packet)
        gap_size == next_avail_seq - last_seq - 1
        st1 == [st EXCEPT !.device_states[device_id].gaps = @ + gap_size,
                          !.sequence_gaps = @ + gap_size,
                          !.op.path = "timeout",
                          !.op.closures = Append(@, [dev |-> device_id, L |-> last_seq,
                                                     R |-> next_avail_seq, at |-> Len(st.rows),
                                                     bat |-> Len(st.batch_rows),
                                                     left |-> start_vals,
                                                     trigger |-> "arrival"])]
        st2 == interpolate_and_log(st1, device_id, last_seq, next_avail_seq, start_vals,
                                   end_vals, timestamp, 0, 1, batch_size)
        st3 == [st2 EXCEPT !.device_states[device_id].last_seq = next_avail_seq - 1,
                           !.device_states[device_id].gap_start_time = None]
        st4 == IF current_seq = st3.device_states[device_id].last_seq + 1
               THEN [log_data_packet(st3, packet, timestamp, 0, 0)
                        EXCEPT !.device_states[device_id].last_values = get_packet_values(packet),
                               !.device_states[device_id].last_seq = current_seq]
               ELSE process_buffered_packets(st3, device_id)
    IN IF current_seq > st4.device_states[device_id].last_seq + 1
       THEN add_to_buffer(st4, packet, timestamp, device_id)
       ELSE st4

\* a faulty threshold that stalls a gap at an age of exactly max_gap_wait_seconds
gap_age_reached(gap_age) == gap_age >= max_gap_wait_seconds

\* if gap_age > self.max_gap_wait_seconds
gap_age_exceeded(gap_age) == gap_age > max_gap_wait_seconds

\* _process_telemetry, msg_type == MSG_DATA
process_data(st, packet, timestamp) ==
    LET device_id == packet.device_id
        device_state == st.device_states[device_id]
        current_seq == packet.seq_num
        last_seq == device_state.last_seq
    IN IF seq_not_above(current_seq, last_seq)
       THEN log_data_packet([st EXCEPT !.device_states[device_id].duplicates = @ + 1,
                                       !.duplicate_count = @ + 1,
                                       !.op.path = "duplicate"],
                            packet, timestamp, 1, 0)
       ELSE IF current_seq = last_seq + 1
       THEN LET st1 == log_data_packet([st EXCEPT !.op.path = "in-order"],
                                       packet, timestamp, 0, 0)
            IN process_buffered_packets(
                   [st1 EXCEPT !.device_states[device_id].last_values = get_packet_values(packet),
                               !.device_states[device_id].last_seq = current_seq,
                               !.device_states[device_id].gap_start_time = None],
                   device_id)
       ELSE IF /\ device_state.gap_start_time # None
               /\ gap_age_exceeded(timestamp - device_state.gap_start_time[1])
       THEN process_timeout(st, packet, timestamp)
       ELSE add_to_buffer([st EXCEPT !.op.path = "buffer"], packet, timestamp, device_id)

\* a faulty lookup that hands every device the record of the first device seen
device_state_first(order, device_id) == Head(order)

\* `device_state = self.device_states[packet.device_id]`: the record is the sender's
device_state_of(order, device_id) == device_id

process_telemetry(st, packet, timestamp, packet_size) ==
    LET device_id == packet.device_id
        st0 == Touch(st, device_id)
        key == device_state_of(st0.device_order, device_id)
        st1 == [st0 EXCEPT !.device_states[key].packets = @ + 1,
                           !.device_states[key].bytes = @ + packet_size,
                           !.device_states[key].is_batch_mode =
                               (packet.flags % 2) = FLAG_BATCHING,
                           !.op.dev = device_id]
    IN IF packet.msg_type = MSG_INIT THEN process_init(st1, packet, timestamp)
       ELSE IF packet.msg_type = MSG_HEARTBEAT THEN process_heartbeat(st1, packet, timestamp)
       ELSE process_data(st1, packet, timestamp)

(***************************************************************************)
(* Server.run: one iteration of the ingress loop per action                *)
(***************************************************************************)
MaxTime == 4
MaxEvents == 3

Handler(kind) ==
    [device_states |-> device_states, device_order |-> device_order, rows |-> rows,
     batch_rows |-> batch_rows, duplicate_count |-> duplicate_count,
     sequence_gaps |-> sequence_gaps, op |-> [NoOp EXCEPT !.kind = kind]]

Commit(st) ==
    /\ device_states' = st.device_states
    /\ device_order' = st.device_order
    /\ rows' = st.rows
    /\ batch_rows' = st.batch_rows
    /\ duplicate_count' = st.duplicate_count
    /\ sequence_gaps' = st.sequence_gaps
    /\ last_op' = st.op

\* recvfrom returns `data`, dt seconds after the previous event
Receive(data, dt) ==
    /\ running
    /\ \E decoded \in {decode_packet(data)} :
       LET arrival_time == now + dt
           packet_size == Len(data)
           st0 == [Handler("receive") EXCEPT !.op.data = data]
           st1 == IF decoded.ok
                  THEN process_telemetry(st0, decoded.val, arrival_time, packet_size)
                  ELSE [st0 EXCEPT !.op.path = "decode failed"]
           st2 == IF decoded.ok /\ (packet_count + 1) % SweepEvery = 0
                  THEN cleanup_old_buffers(st1, arrival_time)
                  ELSE st1
       IN /\ now' = arrival_time
          /\ packet_count' = packet_count + 1
          /\ last_packet_time' = arrival_time
          /\ total_bytes_received' = total_bytes_received + packet_size
          /\ packets_received' = packets_received + 1
          /\ arrivals' = IF decoded.ok
                         THEN Append(arrivals, [packet |-> decoded.val, time |-> arrival_time])
                         ELSE arrivals
          /\ Commit(st2)
    /\ UNCHANGED <<running, auto_shutdown, codecVars>>

\* the idle test of the socket.timeout branch: left alone by a mutant that counts the
\* idle time of a collector that never received anything from its start
idle_exit_since_start(idle_limit, last, current) ==
    idle_limit # 0 /\ current - (IF last = -1 THEN 0 ELSE last) >= idle_limit
\* `if self.auto_shutdown_timeout and self.last_packet_time:` and the comparison in it
idle_exit(idle_limit, last, current) ==
    idle_limit # 0 /\ last # -1 /\ current - last >= idle_limit

\* recvfrom raises socket.timeout: a second has passed without a datagram.  The clock
\* stops at `horizon`; idle_limit is self.auto_shutdown_timeout (0 = None, not configured)
Idle(horizon, idle_limit) ==
    /\ running
    /\ now < horizon
    /\ now' = now + 1
    /\ IF idle_exit(idle_limit, last_packet_time, now + 1)
       THEN /\ running' = FALSE
            /\ last_op' = [NoOp EXCEPT !.kind = "shutdown"]
            /\ UNCHANGED <<device_states, device_order, rows, batch_rows, duplicate_count,
                           sequence_gaps>>
       ELSE /\ running' = running
            /\ \E swept \in {cleanup_old_buffers(Handler("sweep"), now + 1)} : Commit(swept)
    /\ UNCHANGED <<packet_count, packets_received, total_bytes_received, last_packet_time,
                   auto_shutdown, arrivals, codecVars>>

Timeout == Idle(MaxTime, auto_shutdown)

\* KeyboardInterrupt leaves the loop
Interrupt ==
    /\ running
    /\ running' = FALSE
    /\ last_op' = [NoOp EXCEPT !.kind = "interrupt"]
    /\ UNCHANGED <<device_states, device_order, rows, batch_rows, packet_count,
                   packets_received, total_bytes_received, duplicate_count, sequence_gaps,
                   last_packet_time, auto_shutdown, now, arrivals, codecVars>>

\* Server.__init__ with auto_shutdown_timeout = limit
Server(limit) ==
    /\ device_states = <<>>
    /\ device_order = <<>>
    /\ rows = <<>>
    /\ batch_rows = <<>>
    /\ packet_count = 0
    /\ packets_received = 0
    /\ total_bytes_received = 0
    /\ duplicate_count = 0
    /\ sequence_gaps = 0
    /\ last_packet_time = -1
    /\ now = 0
    /\ running = TRUE
    /\ auto_shutdown = limit
    /\ arrivals = <<>>
    /\ last_op = NoOp

ServerInit == Server(auto_shutdown_timeout)

(***************************************************************************)
(* Senders: the datagrams the collector is offered                         *)
(***************************************************************************)
MaxSeq == 3

InitFrame(d, s) == TelemetryPacket(VERSION, MSG_INIT, d, s, 0, <<>>, 0)
HeartbeatFrame(d, s) == TelemetryPacket(VERSION, MSG_HEARTBEAT, d, s, 0, <<>>, 0)
DataFrame(d, s) ==
    TelemetryPacket(VERSION, MSG_DATA, d, s, 0, <<SensorReading(SENSOR_TEMP, Num(20 + 2 * s))>>, 0)
Datagram(p) == encode_packet(p).val

(***************************************************************************)
(* Codec harness: a frame is drawn, handed to encode_packet (or put on the *)
(* wire unvalidated, as a non-conforming sender would), the datagram may   *)
(* gain or lose a trailing byte, and decode_packet reads it.               *)
(***************************************************************************)
SmallBatch == 3
MaxReadings == (PAYLOAD_LIMIT - HEADER_SIZE - 1) \div READING_SIZE

Repeat(x, n) == [i \in 1..n |-> x]

CodecValues == {Num(0), Num(25), Num(-3), Norm(51, -1), Num(16777216), Num(16777217),
                Norm(1, 130), NaN, PosInf, NegInf}
CodecSensors == {SENSOR_TEMP, SENSOR_HUM, SENSOR_VOLT, 4}
CodecReadingLists ==
    {<<>>}
    \cup {<<SensorReading(st, v)>> : st \in CodecSensors, v \in CodecValues}
    \cup {Repeat(SensorReading(SENSOR_TEMP, Num(25)), n) :
             n \in (2..SmallBatch) \cup {MaxReadings, MaxReadings + 1}}
    \cup {<<SensorReading(SENSOR_TEMP, Num(25)), SensorReading(SENSOR_HUM, Num(60)),
            SensorReading(SENSOR_VOLT, Num(3))>>}
CodecFrames ==
    {TelemetryPacket(v, k, d, s, 1234567890, r, f) :
        v \in {VERSION, 2}, k \in MSG_TYPES \cup {3}, d \in {3001, 3004},
        s \in {0, 16909060}, r \in CodecReadingLists, f \in {0, FLAG_BATCHING, 255}}

NoFrame == TelemetryPacket(0, 0, 0, 0, 0, <<>>, 0)
NoResult == [how |-> "none", res |-> Fail("")]

CodecIdle == /\ frame = NoFrame
             /\ wire = NoResult
             /\ back = NoResult
             /\ cpc = "idle"

CodecInit == /\ frame \in CodecFrames
             /\ wire = NoResult
             /\ back = NoResult
             /\ cpc = "frame"

Encode == /\ cpc = "frame"
          /\ wire' = [how |-> "encode", res |-> encode_packet(frame)]
          /\ cpc' = "wire"
          /\ UNCHANGED <<frame, back>>
          /\ UNCHANGED serverVars

SendRaw == /\ cpc = "frame"
           /\ Serialize(frame).ok
           /\ wire' = [how |-> "raw", res |-> Serialize(frame)]
           /\ cpc' = "wire"
           /\ UNCHANGED <<frame, back>>
           /\ UNCHANGED serverVars

AppendByte == /\ cpc = "wire"
              /\ wire.how = "encode"
              /\ wire.res.ok
              /\ \E b \in {0, 1, 255} :
                    wire' = [how |-> "extra", res |-> Ok(Append(wire.res.val, b))]
              /\ UNCHANGED <<frame, back, cpc>>
              /\ UNCHANGED serverVars

DropByte == /\ cpc = "wire"
            /\ wire.how = "encode"
            /\ wire.res.ok
            /\ wire' = [how |-> "short",
                        res |-> Ok(SubSeq(wire.res.val, 1, Len(wire.res.val) - 1))]
            /\ UNCHANGED <<frame, back, cpc>>
            /\ UNCHANGED serverVars

Decode == /\ cpc = "wire"
          /\ wire.res.ok
          /\ back' = [how |-> wire.how, res |-> decode_packet(wire.res.val)]
          /\ cpc' = "done"
          /\ UNCHANGED <<frame, wire>>
          /\ UNCHANGED serverVars

(***************************************************************************)
(* Specifications                                                          *)
(***************************************************************************)
ServerDevices == {3001, 3002}
Seqs == 0..MaxSeq

\* a datagram decode_packet rejects (a lone byte) and one from a device outside the accept-set
MalformedDatagram == <<VERSION>>
UnauthorizedDatagram == Serialize(DataFrame(3004, 1)).val

AllFrames == UNION {{InitFrame(d, s), HeartbeatFrame(d, s), DataFrame(d, s)} :
                       d \in ServerDevices, s \in Seqs}
AllDatagrams == {Datagram(p) : p \in AllFrames} \cup {MalformedDatagram, UnauthorizedDatagram}

\* any datagram, any device
Arrive ==
    \E data \in AllDatagrams, dt \in 0..1 :
        /\ packet_count < MaxEvents
        /\ now + dt <= MaxTime
        /\ Receive(data, dt)

Init == ServerInit /\ CodecIdle
Next == Arrive \/ Timeout \/ Interrupt
Spec == Init /\ [][Next]_vars

\* one device, DATA frames only, any sequence any number of times
DataFrames == {DataFrame(3001, s) : s \in Seqs}
DataDatagrams == {Datagram(p) : p \in DataFrames}
ArriveData ==
    \E data \in DataDatagrams, dt \in 0..1 :
        /\ packet_count < MaxEvents
        /\ now + dt <= MaxTime
        /\ Receive(data, dt)
NextData == ArriveData \/ Timeout
SpecData == Init /\ [][NextData]_vars

\* one device, INIT(0) and DATA 1..MaxSeq+1, each delivered at most once
OnceFrames == {InitFrame(3001, 0)} \cup {DataFrame(3001, s) : s \in 1..(MaxSeq + 1)}
OnceDatagrams == [p \in OnceFrames |-> Datagram(p)]
ArriveOnce ==
    \E p \in OnceFrames, dt \in 0..1 :
        /\ \A i \in 1..Len(arrivals) : arrivals[i].packet # p
        /\ now + dt <= MaxTime
        /\ Receive(OnceDatagrams[p], dt)
NextOnce == ArriveOnce \/ Timeout
SpecOnce == Init /\ [][NextOnce]_vars

\* one device, INIT, DATA and HEARTBEAT frames, any number of times
MixedFrames == UNION {{InitFrame(3001, s), HeartbeatFrame(3001, s), DataFrame(3001, s)} :
                         s \in Seqs}
MixedDatagrams == {Datagram(p) : p \in MixedFrames}
ArriveMixed ==
    \E data \in MixedDatagrams, dt \in 0..1 :
        /\ packet_count < MaxEvents - 1
        /\ now + dt <= MaxTime
        /\ Receive(data, dt)
NextMixed == ArriveMixed \/ Timeout
SpecMixed == Init /\ [][NextMixed]_vars

\* one device, DATA frames only, a collector started without --auto-shutdown; the
\* clock runs DrainTime beyond the last possible arrival, and the idle tick of the
\* ingress loop (socket timeout of one second) keeps coming
DrainTime == 2 * max_gap_wait_seconds + max_buffer_size
InitQuiet == Server(0) /\ CodecIdle
TickQuiet == Idle(MaxTime + DrainTime, auto_shutdown)
NextStuck == ArriveData \/ TickQuiet
\* the steps of NextStuck that advance the clock without taking a datagram are exactly
\* the TickQuiet steps, and they are possible exactly when TickQuiet is
IdleTick == running /\ now < MaxTime + DrainTime /\ now' = now + 1 /\ UNCHANGED packet_count
SpecStuck == InitQuiet /\ [][NextStuck]_vars /\ WF_now(IdleTick)

\* one device whose frames carry different payloads: after INIT(0), DATA frames with
\* sequences 1, 3, .., MaxSeq + 1 in increasing order (frames are lost, not reordered),
\* at most MaxEvents of them, each with a single
\* temperature reading, a temperature and a humidity reading, a single humidity reading,
\* or a flagged batch of 1 or SmallBatch temperature readings
Temp(s) == SensorReading(SENSOR_TEMP, Num(20 + 2 * s))
Hum(s) == SensorReading(SENSOR_HUM, Num(50 + 4 * s))
Payloads(s) ==
    {[readings |-> <<Temp(s)>>, flags |-> 0],
     [readings |-> <<Temp(s), Hum(s)>>, flags |-> 0],
     [readings |-> <<Hum(s)>>, flags |-> 0],
     [readings |-> <<Temp(s)>>, flags |-> FLAG_BATCHING],
     [readings |-> [i \in 1..SmallBatch |-> SensorReading(SENSOR_TEMP, Num(20 + 2 * s + i - 1))],
      flags |-> FLAG_BATCHING]}
GapSeqs == {1} \cup (3..(MaxSeq + 1))
GapFrames ==
    {InitFrame(3001, 0)}
    \cup UNION {{TelemetryPacket(VERSION, MSG_DATA, 3001, s, 0, pl.readings, pl.flags) :
                    pl \in Payloads(s)} : s \in GapSeqs}
GapDatagrams == [p \in GapFrames |-> Datagram(p)]
ArriveGap ==
    \E p \in GapFrames, dt \in 0..1 :
        /\ (arrivals = <<>>) <=> (p.msg_type = MSG_INIT)
        /\ \A i \in 1..Len(arrivals) : arrivals[i].packet.seq_num < p.seq_num
        /\ packet_count < MaxEvents + 1
        /\ now + dt <= MaxTime
        /\ Receive(GapDatagrams[p], dt)
NextGap == ArriveGap \/ Timeout
SpecGap == Init /\ [][NextGap]_vars

\* one device, a few well-formed frames, and datagrams the decoder has to refuse: from
\* a device outside the accept-set, or malformed (wrong length, version, kind, sensor
\* kind, non-finite value, trailing bytes, payload on INIT, no readings)
GoodDatagram == Datagram(DataFrame(3001, 1))
UnauthorizedFrames == {DataFrame(3004, 1), InitFrame(3004, 0), HeartbeatFrame(0, 2)}
UnauthorizedDatagrams == {Serialize(f).val : f \in UnauthorizedFrames}
MalformedDatagrams ==
    {MalformedDatagram,
     SubSeq(GoodDatagram, 1, Len(GoodDatagram) - 1),
     Append(GoodDatagram, 0),
     [GoodDatagram EXCEPT ![1] = VERSION + 1],
     [GoodDatagram EXCEPT ![2] = 3],
     [GoodDatagram EXCEPT ![HEADER_SIZE + 2] = 4],
     SubSeq(GoodDatagram, 1, HEADER_SIZE + 2) \o <<127, 128, 0, 0>>,
     SubSeq(GoodDatagram, 1, HEADER_SIZE + 2) \o <<127, 192, 0, 0>>,
     SubSeq(GoodDatagram, 1, HEADER_SIZE) \o <<0>>,
     Append(Datagram(InitFrame(3001, 0)), 0)}
DropDatagrams ==
    {Datagram(InitFrame(3001, 0)), GoodDatagram, Datagram(DataFrame(3001, MaxSeq))}
    \cup UnauthorizedDatagrams \cup MalformedDatagrams
ArriveDrop ==
    \E data \in DropDatagrams, dt \in 0..1 :
        /\ packet_count < MaxEvents
        /\ now + dt <= MaxTime
        /\ Receive(data, dt)
NextDrop == ArriveDrop \/ Timeout
SpecDrop == Init /\ [][NextDrop]_vars

\* a collector started with or without --auto-shutdown; frames of one device, a
\* malformed and an unauthorized datagram arrive until MaxTime, and the clock runs one
\* threshold beyond it
IdleDatagrams ==
    {Datagram(InitFrame(3001, 0)), GoodDatagram, Datagram(DataFrame(3001, MaxSeq)),
     Append(GoodDatagram, 0), Serialize(DataFrame(3004, 1)).val}
ArriveIdle ==
    \E data \in IdleDatagrams, dt \in 0..1 :
        /\ packet_count < MaxEvents
        /\ now + dt <= MaxTime
        /\ Receive(data, dt)
TimeoutIdle == Idle(MaxTime + auto_shutdown_timeout, auto_shutdown)
InitIdle == (\E limit \in {0, auto_shutdown_timeout} : Server(limit)) /\ CodecIdle
NextIdle == ArriveIdle \/ TimeoutIdle
SpecIdle == InitIdle /\ [][NextIdle]_vars

\* a collector started with or without --auto-shutdown that takes DATA frames of one
\* device until MaxTime, idles up to one threshold beyond it, and may be interrupted
\* from the keyboard at any moment
NextExit == ArriveData \/ TimeoutIdle \/ Interrupt
SpecExit == InitIdle /\ [][NextExit]_vars

\* two devices, INIT, DATA and HEARTBEAT frames, and datagrams the decoder refuses
TallyFrames ==
    UNION {{InitFrame(d, 0), DataFrame(d, MaxSeq), HeartbeatFrame(d, MaxSeq)} :
              d \in {3001, 3002}}
TallyDatagrams ==
    {Datagram(p) : p \in TallyFrames}
    \cup {Append(GoodDatagram, 0), Serialize(DataFrame(3004, 1)).val}
ArriveTally ==
    \E data \in TallyDatagrams, dt \in 0..1 :
        /\ packet_count < MaxEvents
        /\ now + dt <= MaxTime
        /\ Receive(data, dt)
NextTally == ArriveTally \/ Timeout
SpecTally == Init /\ [][NextTally]_vars

\* one device that restarts: INIT with sequence 0 or 1 and DATA frames, any number of
\* times in any order
RestartFrames == {InitFrame(3001, 0), InitFrame(3001, 1)} \cup DataFrames
RestartDatagrams == {Datagram(p) : p \in RestartFrames}
ArriveRestart ==
    \E data \in RestartDatagrams, dt \in 0..1 :
        /\ packet_count < MaxEvents
        /\ now + dt <= MaxTime
        /\ Receive(data, dt)
NextRestart == ArriveRestart \/ Timeout
SpecRestart == Init /\ [][NextRestart]_vars

\* the codec alone
InitCodec == ServerInit /\ CodecInit
NextCodec == Encode \/ SendRaw \/ AppendByte \/ DropByte \/ Decode
SpecCodec == InitCodec /\ [][NextCodec]_vars

(***************************************************************************)
(* Codec properties (SpecCodec)                                            *)
(***************************************************************************)
\* the frames the protocol calls valid
ValidFrame(f) ==
    /\ f.version = VERSION
    /\ f.msg_type \in MSG_TYPES
    /\ f.device_id \in ALLOWED_DEVICE_IDS
    /\ f.flags \in Byte
    /\ f.msg_type \in {MSG_INIT, MSG_HEARTBEAT} => f.readings = <<>>
    /\ f.msg_type = MSG_DATA => Len(f.readings) \in 1..MaxReadings
    /\ \A i \in 1..Len(f.readings) :
          /\ f.readings[i].sensor_type \in SENSOR_TYPES
          /\ isfinite(f.readings[i].value)

\* v is a number of IEEE-754 single precision: at most 24 significant bits,
\* leading bit no higher than 2^127, lowest bit no lower than 2^-149
Single(v) ==
    /\ v.t = "num"
    /\ v.n # 0 => /\ BitLen(Abs(v.n)) <= 24
                  /\ v.e + BitLen(Abs(v.n)) - 1 <= 127
                  /\ v.e >= -149

SingleFrame(f) == \A i \in 1..Len(f.readings) : Single(f.readings[i].value)

EncodedSize(f) == IF f.msg_type = MSG_DATA
                  THEN HEADER_SIZE + 1 + READING_SIZE * Len(f.readings)
                  ELSE HEADER_SIZE

RoundTrips ==
    /\ wire.res.ok
    /\ Len(wire.res.val) = EncodedSize(frame)
    /\ Len(wire.res.val) <= PAYLOAD_LIMIT
    /\ (cpc = "done" => back.res = Ok(frame))

\* C6 (as the code has it): a valid frame whose reading values are all numbers of
\* single precision is encoded to 13 bytes (INIT, HEARTBEAT) or 13 + 1 + 5n <= 200
\* bytes (DATA with n readings), and decode_packet gives back the same frame, field
\* by field
C6_RoundTripSingle ==
    (wire.how = "encode" /\ ValidFrame(frame) /\ SingleFrame(frame)) => RoundTrips

\* C6 as stated: every valid frame with finite reading values round-trips
C6_RoundTripFinite ==
    (wire.how = "encode" /\ ValidFrame(frame)) => RoundTrips

C6_Witness ==
    /\ cpc = "done"
    /\ back.how = "encode"
    /\ ValidFrame(frame) /\ SingleFrame(frame)
    /\ frame.msg_type = MSG_DATA
    /\ Len(frame.readings) = MaxReadings
    /\ frame.flags = 255
    /\ back.res = Ok(frame)

\* the frames encode_packet must refuse
Rejected(f) ==
    \/ f.version # VERSION
    \/ f.msg_type \notin MSG_TYPES
    \/ f.msg_type \in {MSG_INIT, MSG_HEARTBEAT} /\ f.readings # <<>>
    \/ f.msg_type = MSG_DATA /\ f.readings = <<>>
    \/ f.msg_type = MSG_DATA /\ Len(f.readings) = MaxReadings + 1
    \/ \E i \in 1..Len(f.readings) : f.readings[i].sensor_type \notin SENSOR_TYPES
    \/ \E i \in 1..Len(f.readings) : ~isfinite(f.readings[i].value)

\* C7: encode_packet fails, and produces no bytes, on a frame with a wrong version,
\* an unknown kind, readings on INIT/HEARTBEAT, no readings on DATA, 38 readings,
\* an unknown sensor kind, or a NaN / infinite value
C7_EncodeRejects ==
    (cpc \in {"wire", "done"} /\ Rejected(frame) /\ wire.how # "raw") =>
        (wire.how = "encode" /\ ~wire.res.ok /\ wire.res.val = <<>>)

C7_Witness ==
    /\ wire.how = "encode"
    /\ ~wire.res.ok
    /\ frame.version = VERSION /\ frame.msg_type = MSG_DATA
    /\ frame.device_id \in ALLOWED_DEVICE_IDS
    /\ Len(frame.readings) = MaxReadings + 1

\* C8 as stated: decode_packet fails on the bytes of every frame encode_packet
\* must refuse
C8_DecodeRejects ==
    (cpc = "done" /\ back.how = "raw" /\ Rejected(frame)) => ~back.res.ok

\* every refused frame except the oversize one does fail to decode
C8_DecodeRejectsButSize ==
    (cpc = "done" /\ back.how = "raw" /\ Rejected(frame) /\ back.res.ok) =>
        /\ Len(frame.readings) = MaxReadings + 1
        /\ Len(wire.res.val) > PAYLOAD_LIMIT
        /\ back.res.val = frame

C8_Witness ==
    /\ cpc = "done" /\ back.how = "raw"
    /\ Len(wire.res.val) = HEADER_SIZE + 1 + READING_SIZE * (MaxReadings + 1)
    /\ back.res.ok
    /\ Len(back.res.val.readings) = MaxReadings + 1

\* C9: decode_packet accepts a DATA datagram only when exactly 1 + 5 * reading_count
\* bytes follow the header; a valid datagram is accepted as it is and refused with a
\* byte appended or with its last byte removed, and a refusal returns no frame
C9_ExactPayload ==
    cpc = "done" =>
        /\ (back.res.ok /\ back.res.val.msg_type = MSG_DATA) =>
               Len(wire.res.val) - HEADER_SIZE =
                   1 + wire.res.val[HEADER_SIZE + 1] * READING_SIZE
        /\ back.how \in {"extra", "short"} => ~back.res.ok
        /\ back.how = "encode" => back.res.ok
        /\ ~back.res.ok => back.res.val = <<>>

C9_Witness ==
    /\ cpc = "done"
    /\ back.how = "extra"
    /\ frame.msg_type = MSG_DATA
    /\ Len(wire.res.val) = EncodedSize(frame) + 1
    /\ back.res.err = "Extra bytes in DATA packet"

C9_WitnessShort ==
    /\ cpc = "done"
    /\ back.how = "short"
    /\ frame.msg_type = MSG_DATA
    /\ back.res.err = "Truncated DATA packet"

\* the header bytes as the code lays them out
HeaderAsCoded(f, b) ==
    /\ Len(b) >= HEADER_SIZE
    /\ b[1] = f.version
    /\ b[2] = f.msg_type
    /\ b[3] = f.flags
    /\ b[4] * 256 + b[5] = f.device_id
    /\ ((b[6] * 256 + b[7]) * 256 + b[8]) * 256 + b[9] = f.seq_num
    /\ ((b[10] * 256 + b[11]) * 256 + b[12]) * 256 + b[13] = f.timestamp

\* the header bytes as the layout table has them
HeaderAsTabled(f, b) ==
    /\ Len(b) >= HEADER_SIZE
    /\ b[1] = f.version
    /\ b[2] = f.msg_type
    /\ b[3] * 256 + b[4] = f.device_id
    /\ ((b[5] * 256 + b[6]) * 256 + b[7]) * 256 + b[8] = f.seq_num
    /\ b[9] = f.flags
    /\ ((b[10] * 256 + b[11]) * 256 + b[12]) * 256 + b[13] = f.timestamp

\* C10 (as the code has it): the 13-byte header holds version at offset 0, kind at 1,
\* flags at 2, device_id at 3-4, sequence at 5-8 and timestamp at 9-12, multi-byte
\* fields big-endian, and decode_packet reads the fields from the same offsets
C10_HeaderLayout ==
    /\ (wire.how = "encode" /\ wire.res.ok) => HeaderAsCoded(frame, wire.res.val)
    /\ (cpc = "done" /\ back.res.ok) => HeaderAsCoded(back.res.val, wire.res.val)

\* C10 as stated: device_id at offsets 2-3, sequence at 4-7, flags at 8
C10_HeaderLayoutTabled ==
    /\ (wire.how = "encode" /\ wire.res.ok) => HeaderAsTabled(frame, wire.res.val)
    /\ (cpc = "done" /\ back.res.ok) => HeaderAsTabled(back.res.val, wire.res.val)

C10_Witness ==
    /\ cpc = "done" /\ back.how = "encode" /\ back.res.ok
    /\ frame.seq_num = 16909060
    /\ frame.flags = FLAG_BATCHING
    /\ SubSeq(wire.res.val, 1, HEADER_SIZE) = <<1, frame.msg_type, 1, 11, 185, 1, 2, 3, 4,
                                                73, 150, 2, 210>>

(***************************************************************************)
(* Collector properties                                                    *)
(***************************************************************************)
\* what a row says about its frame: device, sequence, kind and the two flags
Mark(r) == <<r.device_id, r.seq_num, r.msg_type, r.is_dup, r.is_gap>>
Marks == [i \in 1..Len(rows) |-> Mark(rows[i])]

NumData == Len(arrivals) - 1
EachOnce == \A i, j \in 1..Len(arrivals) : i # j => arrivals[i].packet # arrivals[j].packet
InitFirst == Len(arrivals) >= 1 /\ arrivals[1].packet = InitFrame(3001, 0)
\* the arrivals from position `from` on are the DATA frames 1..n of the device, in some order
DataOneTo(from, n) ==
    /\ n >= 1
    /\ \A i \in from..Len(arrivals) : /\ arrivals[i].packet.msg_type = MSG_DATA
                                      /\ arrivals[i].packet.device_id = 3001
    /\ {arrivals[i].packet.seq_num : i \in from..Len(arrivals)} = 1..n
\* no frame arrives more than max_gap_wait_seconds after a frame with a higher sequence
Timely ==
    \A i, j \in 2..Len(arrivals) :
        arrivals[i].packet.seq_num < arrivals[j].packet.seq_num =>
            arrivals[i].time <= arrivals[j].time + max_gap_wait_seconds

InOrderRows(n) == [k \in 1..n |-> <<3001, k, "DATA", 0, 0>>]

C2_StrictlyIncreasing ==
    \A i, j \in 1..Len(rows) :
        (i < j /\ rows[i].device_id = rows[j].device_id
               /\ rows[i].is_dup = 0 /\ rows[j].is_dup = 0)
            => rows[i].seq_num < rows[j].seq_num

\* the frame process_telemetry is handed in the current state
Replay(p) == process_telemetry(Handler("receive"), p, now, Len(Datagram(p)))

AtOrBelowL(p) ==
    /\ p.device_id \in DOMAIN device_states
    /\ device_states[p.device_id].last_seq # -1
    /\ p.seq_num <= device_states[p.device_id].last_seq

KindName(p) == IF p.msg_type = MSG_INIT THEN "INIT"
               ELSE IF p.msg_type = MSG_DATA THEN "DATA" ELSE "HEARTBEAT"

OneDuplicateRow(p, st) ==
    /\ Len(st.rows) = Len(rows) + 1
    /\ SubSeq(st.rows, 1, Len(rows)) = rows
    /\ Mark(st.rows[Len(st.rows)]) = <<p.device_id, p.seq_num, KindName(p), 1, 0>>
    /\ st.device_states[p.device_id].last_seq = device_states[p.device_id].last_seq
    /\ st.device_states[p.device_id].last_values = device_states[p.device_id].last_values

\* C3 (as the code has it): a DATA or HEARTBEAT frame whose sequence is at or below
\* the device's last emitted sequence yields one more row, flagged duplicate, and
\* leaves last_seq and last_values as they were; an INIT frame is never a duplicate:
\* its row is written unflagged and last_seq restarts from its sequence
C3_ReplayAtOrBelowL ==
    \A p \in MixedFrames :
        AtOrBelowL(p) =>
            IF p.msg_type = MSG_INIT
            THEN /\ Len(Replay(p).rows) > Len(rows)
                 /\ Mark(Replay(p).rows[Len(rows) + 1]) = <<p.device_id, p.seq_num, "INIT", 0, 0>>
                 /\ Replay(p).device_states[p.device_id].last_seq >= p.seq_num
            ELSE OneDuplicateRow(p, Replay(p))

\* C3 as stated: a frame of any kind whose row was already emitted yields one more
\* row, flagged duplicate, and leaves last_seq and last_values as they were
C3_ReplayEmitted ==
    \A p \in MixedFrames :
        (\E i \in 1..Len(rows) : Mark(rows[i]) = <<p.device_id, p.seq_num, KindName(p), 0, 0>>)
            => OneDuplicateRow(p, Replay(p))

C3_Witness ==
    /\ Len(arrivals) >= 2
    /\ arrivals[Len(arrivals)].packet.msg_type = MSG_HEARTBEAT
    /\ \E m \in 1..(Len(arrivals) - 1) :
          /\ arrivals[m].packet = arrivals[Len(arrivals)].packet
          /\ arrivals[m].time < arrivals[Len(arrivals)].time
    /\ last_op.path = "duplicate"
    /\ rows[Len(rows)].is_dup = 1

\* the rows a closure of the gap between L and R owes: L+1 .. R-1 flagged gap, then R
ClosureRows(c) ==
    LET n == c.R - c.L - 1
    IN /\ Len(rows) >= c.at + n + 1
       /\ \A k \in 1..n : Mark(rows[c.at + k]) = <<c.dev, c.L + k, "DATA", 0, 1>>
       /\ Mark(rows[c.at + n + 1]) = <<c.dev, c.R, "DATA", 0, 0>>

\* C4 as stated: a closure of the gap between L and R, by an arriving frame or by the
\* sweep, writes the rows L+1 .. R-1 flagged gap and then R unflagged, leaves last_seq
\* at R or beyond, and clears gap_start_time (which only a frame buffered afterwards
\* in the same call sets again)
C4_GapReconciled ==
    \A i \in 1..Len(last_op.closures) :
        LET c == last_op.closures[i]
        IN c.R > c.L + 1 =>
              /\ ClosureRows(c)
              /\ device_states[c.dev].last_seq >= c.R
              /\ (c.trigger = "sweep" \/ last_op.inserted = None)
                     => device_states[c.dev].gap_start_time = None

\* C5: no device's buffer ever holds more than max_buffer_size frames, and an
\* insertion into a full buffer evicts the lowest pending sequence and nothing else
C5_BoundedBuffer ==
    /\ \A d \in DOMAIN device_states : Len(device_states[d].buffer) <= max_buffer_size
    /\ last_op.inserted # None =>
          LET before == last_op.inserted[1].before
              lowest == CHOOSE k \in before : \A x \in before : k <= x
              swept == \E i \in 1..Len(last_op.closures) :
                           last_op.closures[i].trigger = "sweep"
              after == BufferKeys(device_states[last_op.dev].buffer)
          IN /\ last_op.full <=> Cardinality(before) >= max_buffer_size
             /\ last_op.full => last_op.evicted = Some(lowest)
             /\ ~last_op.full => last_op.evicted = None
             /\ ~swept => after = (IF last_op.full THEN before \ {lowest} ELSE before)
                                      \cup {last_op.inserted[1].key}

C5_Witness ==
    /\ last_op.inserted # None
    /\ last_op.full
    /\ last_op.evicted # None
    /\ Cardinality(last_op.inserted[1].before) = max_buffer_size
    /\ last_op.inserted[1].key \notin last_op.inserted[1].before
    /\ Len(device_states[last_op.dev].buffer) = max_buffer_size

\* every DATA arrival after the INIT carries a sequence in 1..n of device 3001
DataWithin(n) ==
    \A i \in 2..Len(arrivals) : /\ arrivals[i].packet.msg_type = MSG_DATA
                                /\ arrivals[i].packet.device_id = 3001
                                /\ arrivals[i].packet.seq_num \in 1..n
ArrivedSeqs == {arrivals[i].packet.seq_num : i \in 2..Len(arrivals)}
\* no position still missing below an arrived frame has been missing for more than
\* max_gap_wait_seconds
NoStaleGap ==
    \A j \in 2..Len(arrivals) :
        (\E k \in 1..(arrivals[j].packet.seq_num - 1) : k \notin ArrivedSeqs)
            => now <= arrivals[j].time + max_gap_wait_seconds
\* the rows a reordering collector owes for the DATA arrivals from position i on, when L
\* is the last emitted sequence and `pending` are the sequences held back: a frame at
\* L + 1 is emitted on arrival, followed at once by the pending frames contiguous with it
RECURSIVE OwedMarks(_, _, _)
OwedMarks(i, L, pending) ==
    IF i > Len(arrivals) THEN <<>>
    ELSE LET s == arrivals[i].packet.seq_num
         IN IF s = L + 1
            THEN LET r == CHOOSE r \in s..(s + Cardinality(pending)) :
                              /\ (s + 1)..r \subseteq pending
                              /\ (r + 1) \notin pending
                 IN [k \in 1..(r - s + 1) |-> <<3001, s + k - 1, "DATA", 0, 0>>]
                        \o OwedMarks(i + 1, r, pending \ (s..r))
            ELSE OwedMarks(i + 1, L, pending \cup {s})

WithinWindow ==
    /\ InitFirst /\ EachOnce /\ DataWithin(max_buffer_size + 1)
    /\ Timely /\ NoStaleGap

\* C11: after INIT with sequence 0, while DATA frames of 1..N (N - 1 <= B) arrive each
\* once in any order and no gap is ever older than max_gap_wait_seconds, every frame
\* that closes the lowest gap is written when it arrives, followed at once by the
\* buffered frames contiguous with it, no row is flagged gap or duplicate, nothing is
\* counted as duplicate or missing, and once all of 1..N have arrived the rows are
\* INIT 0 and then DATA 1..N in increasing order
C11_WithinWindow ==
    WithinWindow =>
        /\ Marks = <<<<3001, 0, "INIT", 0, 0>>>> \o OwedMarks(2, 0, {})
        /\ duplicate_count = 0 /\ sequence_gaps = 0
        /\ device_states[3001].duplicates = 0
        /\ device_states[3001].gaps = 0
        /\ device_states[3001].total_gap_packets = 0
        /\ DataOneTo(2, NumData) =>
              /\ Marks = <<<<3001, 0, "INIT", 0, 0>>>> \o InOrderRows(NumData)
              /\ device_states[3001].buffer = <<>>

\* the late frame 1 arrives a second after 2 and 3 were buffered and is written ahead
\* of them
C11_Witness ==
    /\ WithinWindow
    /\ NumData = 3
    /\ arrivals[4].packet.seq_num = 1
    /\ arrivals[4].time = arrivals[2].time + max_gap_wait_seconds
    /\ last_op.kind = "receive" /\ last_op.path = "in-order"
    /\ Marks = <<<<3001, 0, "INIT", 0, 0>>>> \o InOrderRows(3)

\* the sequences device 3001 holds back
Held == IF 3001 \in DOMAIN device_states THEN BufferKeys(device_states[3001].buffer) ELSE {}
\* the frame with sequence k has left the buffer and has a row of its own
Released(k) ==
    /\ k \notin Held
    /\ \E i \in 1..Len(rows) : Mark(rows[i]) = <<3001, k, "DATA", 0, 0>>
\* what a sweep that found the lowest held frame R old enough wrote: rows flagged gap
\* for L+1 .. R-1, then R and the held frames contiguous with it, in increasing order
SweepRows(c) ==
    LET n == IF c.R > c.L + 1 THEN c.R - c.L - 1 ELSE 0
    IN /\ Len(rows) >= c.at + n + 1
       /\ \A k \in 1..n : Mark(rows[c.at + k]) = <<c.dev, c.L + k, "DATA", 0, 1>>
       /\ \A k \in (c.at + n + 1)..Len(rows) :
             Mark(rows[k]) = <<c.dev, c.R + (k - c.at - n - 1), "DATA", 0, 0>>

\* C12: under idle sweeps that keep running, once the datagrams have stopped the buffer
\* of the device empties and stays empty; a sweep takes out of the buffer only frames
\* it writes to the log, and the sweep that releases the lowest held frame R first
\* writes the rows L+1 .. R-1 flagged gap, then the held frames in increasing order
C12_StuckBufferDrains ==
    /\ <>[](Held = {})
    /\ [][last_op'.kind = "sweep" => \A k \in Held : k \notin Held' => Released(k)']_vars
    /\ [](last_op.kind = "sweep" =>
             /\ Len(last_op.closures) <= 1
             /\ \A i \in 1..Len(last_op.closures) : SweepRows(last_op.closures[i]))

\* frames 2 and 3 were held with nothing before them; a sweep more than
\* 2 * max_gap_wait_seconds later wrote gap rows up to 1, then 2 and 3
C12_Witness ==
    /\ last_op.kind = "sweep"
    /\ Len(last_op.closures) = 1
    /\ last_op.closures[1].R = 2
    /\ now > arrivals[Len(arrivals)].time + 2 * max_gap_wait_seconds
    /\ Held = {}
    /\ Len(rows) >= 3
    /\ Mark(rows[Len(rows) - 2]) = <<3001, 1, "DATA", 0, 1>>
    /\ Mark(rows[Len(rows) - 1]) = <<3001, 2, "DATA", 0, 0>>
    /\ Mark(rows[Len(rows)]) = <<3001, 3, "DATA", 0, 0>>

(***************************************************************************)
(* Gap-fill values (SpecGap)                                               *)
(***************************************************************************)
\* the DATA frame of device 3001 that arrived with sequence s
HasFrame(s) ==
    \E i \in 1..Len(arrivals) : /\ arrivals[i].packet.msg_type = MSG_DATA
                                /\ arrivals[i].packet.seq_num = s
FrameAt(s) ==
    arrivals[CHOOSE i \in 1..Len(arrivals) : /\ arrivals[i].packet.msg_type = MSG_DATA
                                             /\ arrivals[i].packet.seq_num = s].packet
\* the frame carries exactly one reading of sensor kind k, and its value
Carries(p, k) == Cardinality({i \in 1..Len(p.readings) : p.readings[i].sensor_type = k}) = 1
Lacks(p, k) == \A i \in 1..Len(p.readings) : p.readings[i].sensor_type # k
ValueIn(p, k) ==
    Rat(p.readings[CHOOSE i \in 1..Len(p.readings) : p.readings[i].sensor_type = k].value)
Flagged(p) == (p.flags % 2) = FLAG_BATCHING
\* sequence s was written from its own frame
RealRow(s) == \E i \in 1..Len(rows) : Mark(rows[i]) = <<3001, s, "DATA", 0, 0>>
\* a + (b - a) * i / m
Lerp(a, b, i, m) == RAdd(a, RDivInt(RMulInt(RSub(b, a), i), m))
\* a closure whose two endpoints are frames that arrived, the left one written as real
RealEnds(c) ==
    /\ c.R - c.L - 1 >= 1
    /\ HasFrame(c.L) /\ HasFrame(c.R) /\ RealRow(c.L)
\* the rows the closure wrote for L+1 .. R-1 carry, for sensor kind k, the straight
\* line between the value a of frame L and the value b of frame R
LinearRows(c, k) ==
    LET n == c.R - c.L - 1
        a == ValueIn(FrameAt(c.L), k)
        b == ValueIn(FrameAt(c.R), k)
    IN \A i \in 1..n :
          /\ Len(rows) >= c.at + i
          /\ Mark(rows[c.at + i]) = <<c.dev, c.L + i, "DATA", 0, 1>>
          /\ rows[c.at + i].vals[k] = Some(Fmt(Lerp(a, b, i, n + 1), 100))

\* C13 as stated: when a timeout closes the gap between the real frames L and
\* R = L + n + 1, neither flagged as a batch, and both carry a value (a and b) for a
\* sensor kind, the synthesized row L + i carries a + (b - a) * i / (n + 1), i in 1..n
C13_LinearInterpolation ==
    \A j \in 1..Len(last_op.closures) :
        LET c == last_op.closures[j]
        IN (RealEnds(c) /\ ~Flagged(FrameAt(c.L)) /\ ~Flagged(FrameAt(c.R))) =>
              \A k \in 1..3 :
                  (Carries(FrameAt(c.L), k) /\ Carries(FrameAt(c.R), k)) => LinearRows(c, k)

\* C13, what the code gives: the same when the right endpoint carries a single reading
C13_LinearSingleReading ==
    \A j \in 1..Len(last_op.closures) :
        LET c == last_op.closures[j]
        IN (RealEnds(c) /\ ~Flagged(FrameAt(c.L)) /\ Len(FrameAt(c.R).readings) = 1) =>
              \A k \in 1..3 :
                  (Carries(FrameAt(c.L), k) /\ Carries(FrameAt(c.R), k)) => LinearRows(c, k)

\* a gap of two between single temperature readings was closed
C13_Witness ==
    /\ Len(last_op.closures) = 1
    /\ LET c == last_op.closures[1]
       IN /\ RealEnds(c) /\ c.R - c.L - 1 = 2
          /\ FrameAt(c.L).readings = <<Temp(c.L)>> /\ ~Flagged(FrameAt(c.L))
          /\ FrameAt(c.R).readings = <<Temp(c.R)>> /\ ~Flagged(FrameAt(c.R))
          /\ LinearRows(c, SENSOR_TEMP)

\* the rows the closure wrote for L+1 .. R-1 carry no value for sensor kind k
NullRows(c, k) ==
    \A i \in 1..(c.R - c.L - 1) :
        /\ Len(rows) >= c.at + i
        /\ rows[c.at + i].seq_num = c.L + i /\ rows[c.at + i].is_gap = 1
        /\ rows[c.at + i].vals[k] = None

\* C14 as stated: for each sensor kind, when last_values (the left endpoint) or the
\* frame at R (the right endpoint) has no value of that kind, every synthesized row of
\* the gap has the null marker for it
C14_MissingComponentNull ==
    \A j \in 1..Len(last_op.closures) :
        LET c == last_op.closures[j]
        IN (c.R - c.L - 1 >= 1 /\ HasFrame(c.R) /\ c.left # None) =>
              \A k \in 1..3 :
                  (c.left[k] = None \/ Lacks(FrameAt(c.R), k)) => NullRows(c, k)

\* C14, what the code gives: null when the left endpoint has no value of that kind
C14_NullWhenLeftLacks ==
    \A j \in 1..Len(last_op.closures) :
        LET c == last_op.closures[j]
        IN (c.R - c.L - 1 >= 1 /\ HasFrame(c.R) /\ c.left # None) =>
              \A k \in 1..3 : c.left[k] = None => NullRows(c, k)

\* a gap between a temperature frame and a humidity frame was closed: neither kind has
\* both endpoints
C14_Witness ==
    /\ Len(last_op.closures) = 1
    /\ LET c == last_op.closures[1]
       IN /\ RealEnds(c)
          /\ FrameAt(c.L).readings = <<Temp(c.L)>>
          /\ FrameAt(c.R).readings = <<Hum(c.R)>>
          /\ c.left # None /\ c.left[SENSOR_HUM] = None /\ c.left[SENSOR_TEMP] # None
          /\ NullRows(c, SENSOR_HUM)

\* the right endpoint of the closure is a flagged batch of temperature readings and the
\* left endpoint a temperature value: a single-sensor device in batch mode
BatchEnds(c) ==
    /\ c.R - c.L - 1 >= 1
    /\ HasFrame(c.R) /\ Flagged(FrameAt(c.R))
    /\ \A i \in 1..Len(FrameAt(c.R).readings) :
          FrameAt(c.R).readings[i].sensor_type = SENSOR_TEMP
    /\ c.left # None
    /\ c.left[SENSOR_TEMP] # None /\ c.left[SENSOR_HUM] = None /\ c.left[SENSOR_VOLT] = None
\* n rows in the primary log, row p the mean of the sub-steps (p-1)k+1 .. pk of a value
\* that advances by (right - left) / (n*k + 1), and k rows per synthesized row, one for
\* every sub-step, in the batch-details log
BatchFill(c) ==
    LET n == c.R - c.L - 1
        k == Len(FrameAt(c.R).readings)
        a == Rat(c.left[SENSOR_TEMP][1])
        b == Rat(FrameAt(c.R).readings[1].value)
        v(j) == Lerp(a, b, j, n * k + 1)
        mean(p) == RDivInt(RSum([r \in 1..k |-> v((p - 1) * k + r)]), k)
    IN /\ Len(rows) >= c.at + n
       /\ \A p \in 1..n :
             /\ Mark(rows[c.at + p]) = <<c.dev, c.L + p, "DATA", 0, 1>>
             /\ rows[c.at + p].vals = <<Some(Fmt(mean(p), 100)), None, None>>
       /\ Len(rows) > c.at + n => rows[c.at + n + 1].is_gap = 0
       /\ Len(batch_rows) >= c.bat + n * k
       /\ \A p \in 1..n : \A r \in 1..k :
             LET line == batch_rows[c.bat + (p - 1) * k + r]
             IN /\ line.seq_num = c.L + p /\ line.is_gap = 1
                /\ line.sensor_type = SENSOR_TEMP
                /\ line.value = Fmt(v((p - 1) * k + r), 1000)
       /\ Len(batch_rows) > c.bat + n * k => batch_rows[c.bat + n * k + 1].is_gap = 0

\* C15 as stated: when the right endpoint of a gap of width n is a batch of k readings,
\* n synthesized rows go to the primary log, the value advancing k times per row by
\* (right - left) / (n*k + 1) and each row showing the mean of its k sub-steps, and the
\* batch-details log receives a row for every sub-step, k per synthesized row
C15_BatchGapFill ==
    \A j \in 1..Len(last_op.closures) :
        BatchEnds(last_op.closures[j]) => BatchFill(last_op.closures[j])

\* C15, what the code gives: the same for a right endpoint of two or more readings
C15_BatchOfSeveral ==
    \A j \in 1..Len(last_op.closures) :
        (/\ BatchEnds(last_op.closures[j])
         /\ Len(FrameAt(last_op.closures[j].R).readings) >= 2) => BatchFill(last_op.closures[j])

\* a gap of two before a batch of SmallBatch readings was filled
C15_Witness ==
    /\ Len(last_op.closures) = 1
    /\ LET c == last_op.closures[1]
       IN /\ BatchEnds(c) /\ c.R - c.L - 1 = 2
          /\ Len(FrameAt(c.R).readings) = SmallBatch
          /\ BatchFill(c)
          /\ Len(batch_rows) >= c.bat + 2 * SmallBatch

(***************************************************************************)
(* Log coverage and dispositions                                           *)
(***************************************************************************)
\* the positions in the log of the rows of device d that are not flagged duplicate
Emitted(d) == {i \in 1..Len(rows) : rows[i].device_id = d /\ rows[i].is_dup = 0}
FirstEmitted(d) == rows[CHOOSE i \in Emitted(d) : \A j \in Emitted(d) : i <= j].seq_num

\* C16 as stated: once a device has a row, and with no INIT in between, its rows not
\* flagged duplicate cover every sequence from the first one written up to last_seq
\* exactly once each, real or synthesized: none skipped, none written twice
C16_OneRowPerPosition ==
    \A d \in DOMAIN device_states :
        Emitted(d) # {} =>
            /\ \A s \in FirstEmitted(d)..device_states[d].last_seq :
                  Cardinality({i \in Emitted(d) : rows[i].seq_num = s}) = 1
            /\ \A i \in Emitted(d) :
                  rows[i].seq_num \in FirstEmitted(d)..device_states[d].last_seq

\* rows were written for a run of positions, the last of them released by a sweep
C16_Witness ==
    /\ 3001 \in DOMAIN device_states
    /\ Cardinality(Emitted(3001)) >= 3
    /\ last_op.kind = "sweep" /\ last_op.closures # <<>>
    /\ device_states[3001].last_seq >= 2
    /\ \A s \in 0..device_states[3001].last_seq :
          Cardinality({i \in Emitted(3001) : rows[i].seq_num = s}) = 1

\* the datagram carries, at offsets 3-4, a device id outside the accept-set
Unauthorized(data) ==
    Len(data) >= HEADER_SIZE /\ unpack_H(SubSeq(data, 4, 5)) \notin ALLOWED_DEVICE_IDS
\* the step took a datagram off the socket
Took == packet_count' = packet_count + 1
\* the step wrote no row and left every device record, and the registry, as it was
NothingEmitted ==
    /\ rows' = rows /\ batch_rows' = batch_rows
    /\ device_states' = device_states /\ device_order' = device_order
    /\ duplicate_count' = duplicate_count /\ sequence_gaps' = sequence_gaps

\* C17: a frame whose device id is outside the accept-set is refused by encode_packet
\* and, once on the wire, by decode_packet; the collector drops the datagram without a
\* row and without creating or changing any device record, and the registry only ever
\* holds device ids of the accept-set
C17_UnauthorizedDropped ==
    /\ [](/\ DOMAIN device_states \subseteq ALLOWED_DEVICE_IDS
          /\ \A f \in UnauthorizedFrames :
                ~encode_packet(f).ok /\ ~decode_packet(Serialize(f).val).ok)
    /\ [][(Took /\ Unauthorized(last_op'.data)) =>
             /\ last_op'.path = "decode failed"
             /\ NothingEmitted
             /\ arrivals' = arrivals
             /\ running']_vars

\* a datagram of device 3004 was dropped by a collector that holds a record for 3001
C17_Witness ==
    /\ last_op.kind = "receive" /\ last_op.path = "decode failed"
    /\ last_op.data = Serialize(DataFrame(3004, 1)).val
    /\ DOMAIN device_states = {3001}
    /\ rows # <<>>
    /\ running

\* the datagrams decode_packet raised on so far: those taken off the socket less those
\* handed on as frames
DecodeFailures == packet_count - Len(arrivals)
\* every count the collector keeps: the process totals and the per-device subtotals
Counters ==
    {packet_count, packets_received, total_bytes_received, duplicate_count, sequence_gaps}
    \cup UNION {{device_states[d].packets, device_states[d].bytes, device_states[d].duplicates,
                 device_states[d].gaps, device_states[d].total_gap_packets} :
                   d \in DOMAIN device_states}
\* the step dropped a malformed datagram: no row, no change to any device record, the
\* loop goes on
DroppedMalformed ==
    (Took /\ last_op'.data \in MalformedDatagrams) =>
        /\ last_op'.path = "decode failed"
        /\ NothingEmitted
        /\ arrivals' = arrivals
        /\ running'

\* C18 as stated: a datagram that fails decoding (bad length, version, kind, sensor
\* kind, non-finite value, trailing bytes) is dropped without a row and without a change
\* to any device record, the loop continues, and the datagram is counted as a decode
\* failure: some count kept by the collector is the number of decode failures
C18_MalformedCounted ==
    /\ [][DroppedMalformed]_vars
    /\ [](DecodeFailures \in Counters)

\* C18, what the code gives: dropped as claimed, and counted only as one more packet
\* received and its bytes
C18_MalformedDropped ==
    /\ [][DroppedMalformed]_vars
    /\ [][(Took /\ last_op'.data \in MalformedDatagrams) =>
             /\ packets_received' = packets_received + 1
             /\ total_bytes_received' = total_bytes_received + Len(last_op'.data)
             /\ last_packet_time' = now']_vars

\* two datagrams were dropped by the decoder, the last one with a trailing byte, and no
\* count of the collector says two
C18_Witness ==
    /\ last_op.kind = "receive" /\ last_op.path = "decode failed"
    /\ last_op.data = Append(GoodDatagram, 0)
    /\ DecodeFailures = 2
    /\ rows # <<>>
    /\ DecodeFailures \notin Counters

(***************************************************************************)
(* Leaving the ingress loop                                                *)
(***************************************************************************)
\* seconds since the last datagram, or since the start for a collector that has not
\* received any
Quiet == now - (IF last_packet_time = -1 THEN 0 ELSE last_packet_time)

C19_WitnessAbsent ==
    /\ running /\ auto_shutdown = 0 /\ last_packet_time # -1
    /\ Quiet > auto_shutdown_timeout

(***************************************************************************)
(* Missing-position accounting                                             *)
(***************************************************************************)
\* the rows synthesized for device d
GapRows(d) ==
    {i \in 1..Len(rows) : rows[i].device_id = d /\ rows[i].msg_type = "DATA" /\ rows[i].is_gap = 1}
\* the sequences of device d below its last emitted one that never arrived
LostSeqs(d) ==
    {s \in 0..device_states[d].last_seq :
        \A i \in 1..Len(arrivals) :
            arrivals[i].packet.device_id = d => arrivals[i].packet.seq_num # s}
\* the sum of R - L - 1 over the closures, of the given triggers, of one handler run
RECURSIVE Widths(_, _)
Widths(closures, triggers) ==
    IF closures = <<>> THEN 0
    ELSE LET c == Head(closures)
         IN (IF c.trigger \in triggers THEN c.R - c.L - 1 ELSE 0)
            + Widths(Tail(closures), triggers)
\* a handler ran in this step
Handled == packet_count' # packet_count \/ now' # now
\* the handler run added n to the process counter and to the counter of each device it
\* closed a gap for (one device sends)
Added(n) ==
    /\ sequence_gaps' = sequence_gaps + n
    /\ \A d \in DOMAIN device_states :
          device_states'[d].gaps = device_states[d].gaps + n

\* C20 as stated: every gap closure adds R - L - 1 to the device's and to the process's
\* missing-position counter, whichever trigger closed the gap, so that in every state
\* each counter is the number of gap-synthesized rows written and the number of lost
\* sequences
C20_MissingCounted ==
    /\ [][Handled => Added(Widths(last_op'.closures, {"arrival", "sweep"}))]_vars
    /\ [](\A d \in DOMAIN device_states :
             /\ device_states[d].gaps = Cardinality(GapRows(d))
             /\ sequence_gaps = Cardinality(GapRows(d))
             /\ sequence_gaps = Cardinality(LostSeqs(d)))

\* C20, what the code gives: only the closures made on the arrival of a frame are
\* counted; the closures of the maintenance sweep write their rows and count nothing
C20_ArrivalCounted ==
    /\ [][Handled => Added(Widths(last_op'.closures, {"arrival"}))]_vars
    /\ [](\A d \in DOMAIN device_states :
             /\ device_states[d].gaps = sequence_gaps
             /\ sequence_gaps <= Cardinality(GapRows(d)))

\* a sweep closed the gap between INIT 0 and the frame 3: two rows were synthesized and
\* both counters are still 0
C20_Witness ==
    /\ last_op.kind = "sweep"
    /\ Len(last_op.closures) = 1
    /\ last_op.closures[1].L = 0 /\ last_op.closures[1].R = 3
    /\ Cardinality(GapRows(3001)) = 2
    /\ LostSeqs(3001) = {1, 2}
    /\ sequence_gaps = 0 /\ device_states[3001].gaps = 0

\* a closure made on an arrival was counted
C20_WitnessArrival ==
    /\ last_op.kind = "receive"
    /\ Len(last_op.closures) >= 1
    /\ last_op.closures[1].trigger = "arrival"
    /\ sequence_gaps >= 1 /\ sequence_gaps = Cardinality(GapRows(3001))

(***************************************************************************)
(* Per-device subtotals                                                    *)
(***************************************************************************)
\* the sum over the devices in `order` of one of their counters
RECURSIVE Total(_, _)
Total(order, counter) ==
    IF order = <<>> THEN 0
    ELSE device_states[Head(order)][counter] + Total(Tail(order), counter)
\* no datagram was refused by decode_packet so far
AllDecoded == packet_count = Len(arrivals)

\* the subtotals that do mirror the totals: duplicates always; packets and bytes
\* while every datagram decoded, and short of the totals by the refused datagrams
\* otherwise
MirroredTotals ==
    /\ Total(device_order, "duplicates") = duplicate_count
    /\ Total(device_order, "packets") = Len(arrivals)
    /\ Total(device_order, "packets") <= packets_received
    /\ Total(device_order, "bytes") <= total_bytes_received
    /\ AllDecoded => /\ Total(device_order, "packets") = packets_received
                     /\ Total(device_order, "bytes") = total_bytes_received

\* C21 as stated: in every state the per-device duplicates sum to the process duplicate
\* count and the per-device missing-position counts sum to the process missing-position
\* count; while no datagram failed decoding the per-device packets and bytes sum to the
\* process packets and bytes
C21_SubtotalsMirror ==
    /\ MirroredTotals
    /\ Total(device_order, "gaps") = sequence_gaps

\* C21, what the code gives: duplicates, packets and bytes mirror the totals as claimed;
\* of the missing positions, the process counter is the sum of the gaps counters only
\* while no HEARTBEAT has closed a gap, and the sum of the total_gap_packets counters
\* only while no arriving DATA frame has
C21_DuplicatesMirror ==
    /\ MirroredTotals
    /\ Total(device_order, "gaps") <= sequence_gaps
    /\ Total(device_order, "total_gap_packets") <= sequence_gaps
    /\ (\A i \in 1..Len(rows) : ~(rows[i].msg_type = "HEARTBEAT" /\ rows[i].is_gap = 1))
          => Total(device_order, "gaps") = sequence_gaps
    /\ (\A i \in 1..Len(rows) : ~(rows[i].msg_type = "DATA" /\ rows[i].is_gap = 1))
          => Total(device_order, "total_gap_packets") = sequence_gaps

\* two devices have sent, one of them a HEARTBEAT two or more positions ahead: the
\* process counter holds the width of the gap, the device counters sum to 1
C21_Witness ==
    /\ Len(device_order) = 2
    /\ AllDecoded
    /\ last_op.path = "heartbeat gap"
    /\ sequence_gaps >= 2
    /\ Total(device_order, "gaps") = 1
    /\ Total(device_order, "packets") = packets_received

(***************************************************************************)
(* The rules of the DATA branch, one step at a time                        *)
(***************************************************************************)
\* the step handed a decoded frame to _process_telemetry
Arrived == Len(arrivals') = Len(arrivals) + 1
Frame == arrivals'[Len(arrivals')].packet
ArrivedData == Arrived /\ Frame.msg_type = MSG_DATA
\* the state of the frame's device before the step (a device not yet seen has the
\* defaults of the defaultdict)
Before == IF Frame.device_id \in DOMAIN device_states
          THEN device_states[Frame.device_id] ELSE NewDeviceState
After == device_states'[Frame.device_id]
\* the rows the step wrote
NewRows == SubSeq(rows', Len(rows) + 1, Len(rows'))
\* the drain stopped at a discontinuity
Drained(state) == state.buffer = <<>> \/ Head(state.buffer).key # state.last_seq + 1

\* C22 as stated: the first DATA frame of a device whose last emitted sequence is none
\* is treated as in-order whatever its sequence s: its row is written at once without
\* flags, the last emitted sequence becomes s (or more, by the drain), the last known
\* values are those of an emitted frame and the buffer is drained
C22_FirstEverInOrder ==
    [][ArrivedData /\ Before.last_seq = -1 =>
          /\ NewRows # <<>>
          /\ Mark(NewRows[1]) = <<Frame.device_id, Frame.seq_num, "DATA", 0, 0>>
          /\ After.last_seq >= Frame.seq_num
          /\ After.last_values # None
          /\ Drained(After)]_vars

\* C22, what the code gives: with no last emitted sequence a DATA frame is in-order
\* only if its sequence is 0; any other is a future frame relative to -1 and is buffered
\* without a row while no gap is stalled
C22_FirstEverOnlyZero ==
    [][ArrivedData /\ Before.last_seq = -1 =>
          /\ Frame.seq_num = 0 =>
                /\ last_op'.path = "in-order"
                /\ Mark(NewRows[1]) = <<Frame.device_id, 0, "DATA", 0, 0>>
                /\ After.last_seq >= 0
          /\ Frame.seq_num > 0 /\ last_op'.path # "timeout" =>
                /\ last_op'.path = "buffer"
                /\ \A i \in 1..Len(NewRows) : NewRows[i].seq_num # Frame.seq_num
                /\ \E i \in 1..Len(After.buffer) : After.buffer[i].key = Frame.seq_num]_vars

\* the first frame of the device was DATA 2: it sits in the buffer, no row was written
\* and there is still no last emitted sequence
C22_Witness ==
    /\ Len(arrivals) = 1
    /\ arrivals[1].packet = DataFrame(3001, 2)
    /\ last_op.kind = "receive" /\ last_op.path = "buffer"
    /\ rows = <<>>
    /\ device_states[3001].last_seq = -1
    /\ BufferKeys(device_states[3001].buffer) = {2}

\* the periodic sweep that falls due on every SweepEvery-th datagram did not run at the
\* end of this step, or ran and closed no gap
NoSweepClosure ==
    \A i \in 1..Len(last_op'.closures) : last_op'.closures[i].trigger # "sweep"
\* the step left the frame's device as it was, but for the given counters
SameBut(counters) ==
    \A f \in DOMAIN After : f \notin counters => After[f] = Before[f]

\* C23: a DATA frame with sequence s <= L writes one row for s with the duplicate flag
\* set and the gap flag clear and adds one to the duplicate counter of the device and
\* of the process; the handling of the frame writes no other row and leaves L, the
\* last known values, the buffer and gap_start_time of the device as they were (a
\* periodic sweep that falls due on this datagram and closes a gap does so afterwards)
C23_DuplicateRule ==
    [][ArrivedData /\ Frame.seq_num <= Before.last_seq =>
          /\ last_op'.path = "duplicate"
          /\ NewRows # <<>>
          /\ Mark(NewRows[1]) = <<Frame.device_id, Frame.seq_num, "DATA", 1, 0>>
          /\ After.duplicates = Before.duplicates + 1
          /\ duplicate_count' = duplicate_count + 1
          /\ sequence_gaps' = sequence_gaps
          /\ NoSweepClosure =>
                /\ Len(NewRows) = 1
                /\ SameBut({"duplicates", "packets", "bytes", "is_batch_mode"})]_vars

\* a duplicate arrived while a later frame was waiting in the buffer: one flagged row,
\* and the buffer and L are as before
C23_Witness ==
    /\ Len(arrivals) = 3
    /\ last_op.kind = "receive" /\ last_op.path = "duplicate"
    /\ arrivals[3].packet.seq_num = 0
    /\ 3001 \in DOMAIN device_states
    /\ device_states[3001].last_seq = 0
    /\ device_states[3001].buffer # <<>>
    /\ device_states[3001].gap_start_time # None
    /\ device_states[3001].duplicates = 1 /\ duplicate_count = 1
    /\ Mark(rows[Len(rows)]) = <<3001, 0, "DATA", 1, 0>>

\* how many entries at the head of the buffer carry the keys next, next + 1, ...
RECURSIVE Contiguous(_, _)
Contiguous(buffer, next) ==
    IF buffer # <<>> /\ Head(buffer).key = next
    THEN 1 + Contiguous(Tail(buffer), next + 1)
    ELSE 0

\* C24: a DATA frame with sequence s = L + 1 writes its row with neither flag set, then
\* the rows of the buffered frames s + 1, s + 2, ... as far as they are contiguous, in
\* that order and unflagged; L becomes the last sequence written, the last known values
\* those of the last frame written, the released entries leave the buffer and
\* gap_start_time is cleared (a periodic sweep that closes a gap does so afterwards)
C24_InOrderRule ==
    [][ArrivedData /\ Frame.seq_num = Before.last_seq + 1 =>
          LET s == Frame.seq_num
              k == Contiguous(Before.buffer, s + 1)
          IN /\ last_op'.path = "in-order"
             /\ Len(NewRows) >= 1 + k
             /\ \A i \in 0..k : Mark(NewRows[i + 1]) = <<Frame.device_id, s + i, "DATA", 0, 0>>
             /\ duplicate_count' = duplicate_count
             /\ NoSweepClosure =>
                   /\ Len(NewRows) = 1 + k
                   /\ After.last_seq = s + k
                   /\ After.last_values =
                         get_packet_values(IF k = 0 THEN Frame ELSE Before.buffer[k].packet)
                   /\ After.buffer = SubSeq(Before.buffer, k + 1, Len(Before.buffer))
                   /\ After.gap_start_time = None
                   /\ Drained(After)
                   /\ sequence_gaps' = sequence_gaps]_vars

\* DATA 0 arrived after DATA 2 and DATA 1 had been buffered: the rows 0, 1, 2 were
\* written in order and the buffer is empty
C24_Witness ==
    /\ Len(arrivals) = 3
    /\ last_op.kind = "receive" /\ last_op.path = "in-order"
    /\ arrivals[3].packet.seq_num = 0
    /\ Len(rows) = 3
    /\ \A i \in 1..3 : Mark(rows[i]) = <<3001, i - 1, "DATA", 0, 0>>
    /\ device_states[3001].last_seq = 2
    /\ device_states[3001].buffer = <<>>
    /\ device_states[3001].gap_start_time = None

\* an in-order frame left a later frame in the buffer, and the gap timer cleared
C24_WitnessLeftover ==
    /\ last_op.kind = "receive" /\ last_op.path = "in-order"
    /\ last_op.closures = <<>>
    /\ device_states[3001].buffer # <<>>
    /\ device_states[3001].gap_start_time = None

\* the gap of the device is stalled at time t: a gap is open and older than T_gap
Stalled(state, t) ==
    state.gap_start_time # None /\ t - state.gap_start_time[1] > max_gap_wait_seconds
\* the buffer holds the frame under its sequence
Buffered(state, packet) ==
    \E i \in 1..Len(state.buffer) :
        state.buffer[i].key = packet.seq_num /\ state.buffer[i].packet = packet

\* C25: a DATA frame with sequence s > L + 1 that arrives while no gap is stalled is put
\* into the reorder buffer and writes no row; L, the last known values and the counters
\* stay as they are; gap_start_time becomes the arrival time if it was none and is left
\* as it was if it was set (a periodic sweep that closes a gap does so afterwards)
C25_FutureRule ==
    [][ArrivedData /\ Frame.seq_num > Before.last_seq + 1 /\ ~Stalled(Before, now') =>
          /\ last_op'.path = "buffer"
          /\ duplicate_count' = duplicate_count
          /\ sequence_gaps' = sequence_gaps
          /\ NoSweepClosure =>
                /\ NewRows = <<>>
                /\ Buffered(After, Frame)
                /\ SameBut({"buffer", "gap_start_time", "packets", "bytes", "is_batch_mode"})
                /\ After.gap_start_time = IF Before.gap_start_time = None THEN Some(now')
                                          ELSE Before.gap_start_time]_vars

\* a second future frame arrived one second after the first: both are buffered, no row
\* was written and the gap still dates from the first
C25_Witness ==
    /\ Len(arrivals) = 2
    /\ last_op.kind = "receive" /\ last_op.path = "buffer"
    /\ arrivals[1].time = 0 /\ now = 1
    /\ rows = <<>>
    /\ Len(device_states[3001].buffer) = 2
    /\ device_states[3001].gap_start_time = Some(0)

(***************************************************************************)
(* Drain pass                                                              *)
(***************************************************************************)
\* C26 as stated: once a datagram or a sweep has been processed, no device has its
\* lowest buffered sequence equal to L + 1: whatever advanced L (INIT, in-order DATA,
\* HEARTBEAT, gap closure, sweep) drained the buffer up to the first discontinuity
C26_DrainedAfterEvent ==
    \A d \in DOMAIN device_states : Drained(device_states[d])

\* C26, what the code gives: the buffer is drained after every event but a HEARTBEAT
C26_DrainedButHeartbeat ==
    \A d \in DOMAIN device_states :
        (\A i \in 1..Len(arrivals) : arrivals[i].packet.msg_type # MSG_HEARTBEAT)
            => Drained(device_states[d])

\* a HEARTBEAT with sequence 1 arrived while DATA 2 was buffered: L is 1 and the buffer
\* still starts at 2
C26_Witness ==
    /\ Len(arrivals) = 2
    /\ arrivals[1].packet = DataFrame(3001, 2)
    /\ arrivals[2].packet = HeartbeatFrame(3001, 1)
    /\ last_op.kind = "receive" /\ last_op.path = "in-order"
    /\ device_states[3001].last_seq = 1
    /\ BufferKeys(device_states[3001].buffer) = {2}

(***************************************************************************)
(* Closing a stalled gap on an arrival                                     *)
(***************************************************************************)
\* the closures the handler made for the arriving frame itself
ArrivalClosures ==
    {i \in 1..Len(last_op'.closures) : last_op'.closures[i].trigger = "arrival"}

\* C27: an arriving DATA frame with sequence s > L + 1 takes the timeout path, before
\* it is buffered, exactly when a gap is open and the arrival time less gap_start_time
\* is strictly greater than T_gap; at an age of T_gap or less it is only buffered and
\* its handling synthesizes no row
C27_StalledThreshold ==
    [][ArrivedData /\ Frame.seq_num > Before.last_seq + 1 =>
          /\ last_op'.path = "timeout" <=> Stalled(Before, now')
          /\ Stalled(Before, now') => Cardinality(ArrivalClosures) = 1
          /\ ~Stalled(Before, now') =>
                /\ last_op'.path = "buffer"
                /\ ArrivalClosures = {}
                /\ NoSweepClosure => NewRows = <<>> /\ Buffered(After, Frame)]_vars

\* a future frame arrived exactly T_gap after the gap opened and was only buffered
C27_Witness ==
    /\ Len(arrivals) = 2
    /\ last_op.kind = "receive" /\ last_op.path = "buffer"
    /\ device_states[3001].gap_start_time # None
    /\ now - device_states[3001].gap_start_time[1] = max_gap_wait_seconds
    /\ arrivals[2].time = now
    /\ rows = <<>>
    /\ Len(device_states[3001].buffer) = 2

\* a future frame arrived T_gap + 1 after the gap opened and closed it
C27_WitnessStalled ==
    /\ Len(arrivals) = 2
    /\ last_op.kind = "receive" /\ last_op.path = "timeout"
    /\ arrivals[2].time - arrivals[1].time = max_gap_wait_seconds + 1
    /\ Len(last_op.closures) = 1
    /\ \E i \in 1..Len(rows) : rows[i].is_gap = 1

\* the one closure the arriving frame made
ArrivalClosure == last_op'.closures[CHOOSE i \in ArrivalClosures : TRUE]

\* C28: when an arriving future frame closes a stalled gap, the right endpoint R is the
\* frame at the lowest key of the buffer if the buffer is not empty and the arriving
\* frame otherwise; rows are synthesized for L + 1 .. R - 1 and the next row is the
\* unflagged row of R, so that an arriving frame that is R is written as in-order
C28_RightEndpoint ==
    [][ArrivedData /\ Frame.seq_num > Before.last_seq + 1 /\ Stalled(Before, now') =>
          LET c == ArrivalClosure
              R == IF Before.buffer # <<>> THEN Head(Before.buffer).key ELSE Frame.seq_num
              n == IF R - Before.last_seq - 1 > 0 THEN R - Before.last_seq - 1 ELSE 0
          IN /\ Cardinality(ArrivalClosures) = 1
             /\ c.L = Before.last_seq /\ c.R = R /\ c.at = Len(rows)
             /\ Len(NewRows) >= n + 1
             /\ \A i \in 1..n :
                   Mark(NewRows[i]) = <<Frame.device_id, Before.last_seq + i, "DATA", 0, 1>>
             /\ Mark(NewRows[n + 1]) = <<Frame.device_id, R, "DATA", 0, 0>>
             /\ After.last_seq >= R
             /\ Before.buffer = <<>> => After.last_seq = Frame.seq_num]_vars

\* whenever a gap is open the buffer holds a frame, so that a stalled gap always ends at
\* a buffered frame
C28_OpenGapHasBuffer ==
    \A d \in DOMAIN device_states :
        device_states[d].gap_start_time # None => device_states[d].buffer # <<>>

\* DATA 3 arrived after DATA 2 had waited more than T_gap: the gap was closed at the
\* buffered frame 2: rows 0 and 1 were synthesized and the row of 2 written after them
C28_Witness ==
    /\ Len(arrivals) = 2
    /\ arrivals[1].packet = DataFrame(3001, 2) /\ arrivals[2].packet = DataFrame(3001, 3)
    /\ last_op.kind = "receive" /\ last_op.path = "timeout"
    /\ Len(last_op.closures) = 1
    /\ last_op.closures[1].L = -1 /\ last_op.closures[1].R = 2
    /\ Len(rows) = 3
    /\ Mark(rows[1]) = <<3001, 0, "DATA", 0, 1>>
    /\ Mark(rows[2]) = <<3001, 1, "DATA", 0, 1>>
    /\ Mark(rows[3]) = <<3001, 2, "DATA", 0, 0>>
    /\ device_states[3001].last_seq = 2

(***************************************************************************)
(* Maintenance sweep                                                       *)
(***************************************************************************)
\* the step was an idle tick that ran the sweep
IdleSweep == now' = now + 1 /\ packet_count' = packet_count /\ running'
\* the periodic sweep ran at the end of this step (every SweepEvery-th datagram)
SweepDue == Arrived /\ packet_count' % SweepEvery = 0
\* the devices whose state when the sweep started is the state before the step
Untouched ==
    IF IdleSweep THEN DOMAIN device_states
    ELSE IF SweepDue THEN DOMAIN device_states \ {Frame.device_id}
    ELSE {}
\* the sweep of this step closed a gap of device d
SweptHere(d) ==
    \E i \in 1..Len(last_op'.closures) :
        last_op'.closures[i].dev = d /\ last_op'.closures[i].trigger = "sweep"

\* C29 as stated: every sweep, on an idle tick or on every SweepEvery-th datagram, goes
\* through all devices and closes the gap of each device whose gap is stalled, that is
\* open for more than T_gap, and not only of those whose oldest buffered entry is older
\* than 2 x T_gap
C29_SweepClosesStalled ==
    [][\A d \in Untouched : Stalled(device_states[d], now') => SweptHere(d)]_vars

\* C29, what the code gives: the sweep closes the gap of exactly the devices whose
\* buffer is not empty and whose lowest buffered entry arrived more than 2 x T_gap ago
C29_SweepFloorOnly ==
    [][\A d \in Untouched :
          SweptHere(d) <=>
              /\ device_states[d].buffer # <<>>
              /\ now' - Head(device_states[d].buffer).arrival_time
                    > 2 * max_gap_wait_seconds]_vars

\* an idle tick found the gap of device 3001 open for 2 x T_gap, which is more than
\* T_gap, and closed nothing
C29_Witness ==
    /\ last_op.kind = "sweep" /\ last_op.closures = <<>>
    /\ 3001 \in DOMAIN device_states
    /\ device_states[3001].buffer # <<>>
    /\ device_states[3001].gap_start_time # None
    /\ now - device_states[3001].gap_start_time[1] = 2 * max_gap_wait_seconds
    /\ rows = <<>>

\* one idle tick closed the gaps of two devices
C29_WitnessBoth ==
    /\ last_op.kind = "sweep" /\ Len(last_op.closures) = 2
    /\ last_op.closures[1].dev # last_op.closures[2].dev

(***************************************************************************)
(* Inserting a sequence the buffer already holds                           *)
(***************************************************************************)
\* the arriving frame is a future frame, goes to the buffer, and its sequence is there
BufferHit ==
    /\ ArrivedData
    /\ Frame.seq_num > Before.last_seq + 1
    /\ ~Stalled(Before, now')
    /\ Frame.seq_num \in BufferKeys(Before.buffer)
    /\ NoSweepClosure

\* C30 as stated: inserting a future frame whose sequence is already in the buffer of
\* the device keeps the old entry, frame and arrival time, evicts nothing and leaves the
\* size of the buffer as it was
C30_BufferHitKeepsOld ==
    [][BufferHit => After.buffer = Before.buffer]_vars

\* C30, what the code gives: the lowest entry is evicted first if the buffer is at
\* capacity, and the entry of the sequence then holds the arriving frame and its
\* arrival time
C30_BufferHitReplaces ==
    [][BufferHit =>
          /\ BufferKeys(After.buffer) =
                (IF Len(Before.buffer) >= max_buffer_size
                 THEN BufferKeys(Before.buffer) \ {Head(Before.buffer).key}
                 ELSE BufferKeys(Before.buffer)) \cup {Frame.seq_num}
          /\ \A i \in 1..Len(After.buffer) :
                After.buffer[i].key = Frame.seq_num =>
                    /\ After.buffer[i].packet = Frame
                    /\ After.buffer[i].arrival_time = now']_vars

\* with frames 2 and 3 in a buffer of capacity 2, frame 3 arrived again a second later:
\* frame 2 was evicted and the entry of 3 carries the new arrival time
C30_Witness ==
    /\ Len(arrivals) = 3
    /\ arrivals[1].packet.seq_num = 2 /\ arrivals[2].packet.seq_num = 3
    /\ arrivals[3].packet.seq_num = 3
    /\ arrivals[2].time = 0 /\ arrivals[3].time = 1
    /\ last_op.kind = "receive" /\ last_op.path = "buffer" /\ last_op.closures = <<>>
    /\ Len(device_states[3001].buffer) = 1
    /\ device_states[3001].buffer[1].key = 3
    /\ device_states[3001].buffer[1].arrival_time = 1

(***************************************************************************)
(* INIT                                                                    *)
(***************************************************************************)
ArrivedInit == Arrived /\ Frame.msg_type = MSG_INIT
\* the frame handled before this step was an INIT that left L at its own sequence,
\* below the L it found
AfterBackwardInit ==
    /\ arrivals # <<>>
    /\ arrivals[Len(arrivals)].packet.msg_type = MSG_INIT
    /\ last_op.kind = "receive" /\ last_op.path = "init"
    /\ Before.last_seq = arrivals[Len(arrivals)].packet.seq_num

\* C31: an INIT frame with sequence s writes one INIT row with neither flag set and
\* null values, sets L to s whether s is above or below the L it finds, resets the last
\* known values and the gap timer and drains the buffer from s + 1; a frame with
\* sequence s + 1 that follows such an INIT is written as in-order, not as a duplicate
C31_InitRule ==
    /\ [][ArrivedInit =>
             LET s == Frame.seq_num
                 k == Contiguous(Before.buffer, s + 1)
             IN /\ last_op'.path = "init"
                /\ Len(NewRows) >= 1 + k
                /\ Mark(NewRows[1]) = <<Frame.device_id, s, "INIT", 0, 0>>
                /\ NewRows[1].vals = NULLS
                /\ \A i \in 1..k :
                      Mark(NewRows[i + 1]) = <<Frame.device_id, s + i, "DATA", 0, 0>>
                /\ duplicate_count' = duplicate_count
                /\ NoSweepClosure =>
                      /\ Len(NewRows) = 1 + k
                      /\ After.last_seq = s + k
                      /\ After.last_values =
                            (IF k = 0 THEN None
                             ELSE get_packet_values(Before.buffer[k].packet))
                      /\ After.buffer = SubSeq(Before.buffer, k + 1, Len(Before.buffer))
                      /\ After.gap_start_time = None]_vars
    /\ [][ArrivedData /\ AfterBackwardInit /\ Frame.seq_num = Before.last_seq + 1 =>
             /\ last_op'.path = "in-order"
             /\ Mark(NewRows[1]) = <<Frame.device_id, Frame.seq_num, "DATA", 0, 0>>]_vars

\* after DATA 0 and DATA 1 an INIT with sequence 0 arrived: L went back from 1 to 0 and
\* the last known values are none
C31_Witness ==
    /\ Len(arrivals) = 3
    /\ arrivals[1].packet = DataFrame(3001, 0) /\ arrivals[2].packet = DataFrame(3001, 1)
    /\ arrivals[3].packet = InitFrame(3001, 0)
    /\ last_op.kind = "receive" /\ last_op.path = "init"
    /\ Mark(rows[Len(rows)]) = <<3001, 0, "INIT", 0, 0>>
    /\ device_states[3001].last_seq = 0
    /\ device_states[3001].last_values = None

\* INIT 1, INIT 0, then sequence 1 again as DATA: written as in-order
C31_WitnessReplay ==
    /\ Len(arrivals) = 3
    /\ arrivals[1].packet = InitFrame(3001, 1) /\ arrivals[2].packet = InitFrame(3001, 0)
    /\ arrivals[3].packet = DataFrame(3001, 1)
    /\ last_op.path = "in-order"
    /\ Mark(rows[3]) = <<3001, 1, "DATA", 0, 0>>

(***************************************************************************)
(* HEARTBEAT                                                               *)
(***************************************************************************)
ArrivedHeartbeat == Arrived /\ Frame.msg_type = MSG_HEARTBEAT
HeartbeatRows == {i \in 1..Len(NewRows) : NewRows[i].msg_type = "HEARTBEAT"}

\* C32 as stated: a HEARTBEAT with sequence s is classified as a DATA frame with
\* sequence s would be: a duplicate if s <= L, in-order and followed by a drain if
\* s = L + 1, and a future frame, buffered without advancing L, if s > L + 1; it never
\* changes the last known values
C32_HeartbeatAsData ==
    [][ArrivedHeartbeat /\ Before.last_seq # -1 =>
          LET s == Frame.seq_num
              L == Before.last_seq
          IN /\ After.last_values = Before.last_values
             /\ s <= L =>
                   /\ last_op'.path = "duplicate"
                   /\ After.duplicates = Before.duplicates + 1
                   /\ NoSweepClosure => After.last_seq = L
             /\ s = L + 1 /\ NoSweepClosure =>
                   /\ After.last_seq = s + Contiguous(Before.buffer, s + 1)
                   /\ Drained(After)
             /\ s > L + 1 /\ NoSweepClosure =>
                   /\ After.last_seq = L
                   /\ s \in BufferKeys(After.buffer)]_vars

\* C32, what the code gives: a HEARTBEAT is a duplicate if L is set and s <= L, and is
\* otherwise accepted at once, whatever its sequence: L becomes s, the gap timer is
\* cleared, the buffer is neither added to nor drained, and a gap is counted if s is
\* beyond L + 1; the last known values never change
C32_HeartbeatAdvances ==
    [][ArrivedHeartbeat /\ NoSweepClosure =>
          LET s == Frame.seq_num
              L == Before.last_seq
          IN IF L # -1 /\ s <= L
             THEN /\ last_op'.path = "duplicate"
                  /\ SameBut({"duplicates", "packets", "bytes", "is_batch_mode"})
                  /\ After.duplicates = Before.duplicates + 1
             ELSE /\ After.last_seq = s
                  /\ After.gap_start_time = None
                  /\ SameBut({"last_seq", "gap_start_time", "gaps", "total_gap_packets",
                              "packets", "bytes", "is_batch_mode"})
                  /\ sequence_gaps' =
                        sequence_gaps + (IF L # -1 /\ s > L + 1 THEN s - L - 1 ELSE 0)]_vars

\* after INIT 0 a HEARTBEAT with sequence 2 arrived: L is 2 and nothing is buffered
C32_Witness ==
    /\ Len(arrivals) = 2
    /\ arrivals[1].packet = InitFrame(3001, 0)
    /\ arrivals[2].packet = HeartbeatFrame(3001, 2)
    /\ last_op.kind = "receive" /\ last_op.path = "heartbeat gap"
    /\ device_states[3001].last_seq = 2
    /\ device_states[3001].buffer = <<>>

(***************************************************************************)
(* Batch mode of the gap fill                                              *)
(***************************************************************************)
\* the batching flag of the most recent DATA frame
RecentFlag ==
    LET data == {i \in 1..Len(arrivals) : arrivals[i].packet.msg_type = MSG_DATA}
        last == CHOOSE i \in data : \A j \in data : j <= i
    IN Flagged(arrivals[last].packet)
\* the batch-detail rows written for the positions the closure synthesized
GapDetails(c) ==
    {j \in (c.bat + 1)..Len(batch_rows) :
        /\ batch_rows[j].is_gap = 1
        /\ batch_rows[j].seq_num \in (c.L + 1)..(c.R - 1)}
\* the closures of the last handler run that synthesized at least one row
Fills == {j \in 1..Len(last_op.closures) : last_op.closures[j].R - last_op.closures[j].L - 1 >= 1}

\* C33 as stated: a gap is filled in batch mode, with batch-detail rows for the
\* synthesized positions, if and only if the batching flag of the most recent DATA
\* frame is set; with the flag clear no batch-detail row is written, however many
\* readings the right endpoint carries
C33_BatchByFlag ==
    \A j \in Fills : (GapDetails(last_op.closures[j]) # {}) <=> RecentFlag

\* C33, what the code gives: the gap is filled in batch mode exactly when the right
\* endpoint carries more than one reading, k being the number of its readings, whatever
\* the flags say
C33_BatchByCount ==
    \A j \in Fills :
        LET c == last_op.closures[j]
            k == Len(FrameAt(c.R).readings)
        IN HasFrame(c.R) =>
              /\ (GapDetails(c) # {}) <=> k > 1
              /\ \A p \in (c.L + 1)..(c.R - 1) :
                    k > 1 => \E i \in GapDetails(c) : batch_rows[i].seq_num = p

\* a gap was closed at an unflagged frame of two readings: batch-detail rows were written
C33_Witness ==
    /\ Len(last_op.closures) = 1
    /\ last_op.closures[1].R - last_op.closures[1].L = 2
    /\ HasFrame(last_op.closures[1].R)
    /\ ~Flagged(FrameAt(last_op.closures[1].R))
    /\ ~RecentFlag
    /\ Len(FrameAt(last_op.closures[1].R).readings) = 2
    /\ GapDetails(last_op.closures[1]) # {}

\* a gap was closed at a flagged frame of one reading: no batch-detail row was written
C33_WitnessFlagged ==
    /\ Len(last_op.closures) = 1
    /\ last_op.closures[1].R - last_op.closures[1].L = 2
    /\ HasFrame(last_op.closures[1].R)
    /\ Flagged(FrameAt(last_op.closures[1].R))
    /\ RecentFlag
    /\ Len(FrameAt(last_op.closures[1].R).readings) = 1
    /\ GapDetails(last_op.closures[1]) = {}

(***************************************************************************)
(* The last emitted sequence and the buffer                                *)
(***************************************************************************)
\* the rows of device d not flagged duplicate, from its last INIT row on
SinceInit(d) ==
    LET inits == {i \in 1..Len(rows) : rows[i].device_id = d /\ rows[i].msg_type = "INIT"}
        from == IF inits = {} THEN 1 ELSE CHOOSE i \in inits : \A j \in inits : j <= i
    IN {i \in from..Len(rows) : rows[i].device_id = d /\ rows[i].is_dup = 0}
\* L is the highest sequence among them
HighestEmitted(d) ==
    IF SinceInit(d) = {} THEN device_states[d].last_seq = -1
    ELSE /\ \A i \in SinceInit(d) : rows[i].seq_num <= device_states[d].last_seq
         /\ \E i \in SinceInit(d) : rows[i].seq_num = device_states[d].last_seq
\* a step that handled no INIT frame
NotInit == ~(Arrived /\ Frame.msg_type = MSG_INIT)
\* the buffer of the device holds a frame at or below L
HoldsStale(state) == \E i \in 1..Len(state.buffer) : state.buffer[i].key <= state.last_seq

\* C34 as stated: the last emitted sequence of a device never decreases in a step that
\* handles no INIT frame, be it an arrival, a timeout closure, a sweep or a HEARTBEAT,
\* and it is always the highest sequence written without the duplicate flag since the
\* device's last INIT
C34_MonotonicL ==
    /\ [][NotInit => \A d \in DOMAIN device_states :
                        device_states'[d].last_seq >= device_states[d].last_seq]_vars
    /\ [](\A d \in DOMAIN device_states : HighestEmitted(d))

\* C34, what the code gives: L can only decrease when a closure ends at a buffered frame
\* that is at or below L
C34_MonotonicUnlessStale ==
    [][NotInit => \A d \in DOMAIN device_states :
                     device_states'[d].last_seq < device_states[d].last_seq =>
                         /\ \E i \in 1..Len(last_op'.closures) :
                               /\ last_op'.closures[i].dev = d
                               /\ last_op'.closures[i].R <= last_op'.closures[i].L
                         /\ device_states[d].buffer # <<>>]_vars

\* an idle sweep ended the gap at the buffered frame 1 when L was 2: L went back to 1
\* and frame 1 was written a second time, after frame 2
C34_Witness ==
    /\ last_op.kind = "sweep"
    /\ Len(last_op.closures) = 1
    /\ last_op.closures[1].L = 2 /\ last_op.closures[1].R = 1
    /\ device_states[3001].last_seq = 1
    /\ Len(rows) >= 2
    /\ Mark(rows[Len(rows) - 1]) = <<3001, 2, "DATA", 0, 0>>
    /\ Mark(rows[Len(rows)]) = <<3001, 1, "DATA", 0, 0>>

\* C35 as stated: between handler runs every key in a device's buffer is strictly
\* greater than L + 1, for all interleavings of INIT, DATA and HEARTBEAT frames: no
\* buffered frame is at or below the last emitted sequence, and none is the next one
C35_BufferOnlyFuture ==
    \A d \in DOMAIN device_states :
        \A i \in 1..Len(device_states[d].buffer) :
            device_states[d].buffer[i].key > device_states[d].last_seq + 1

\* C35, what the code gives: the frame is above L + 1 when it is put into the buffer
C35_FutureWhenInserted ==
    [][ArrivedData /\ last_op'.path = "buffer" /\ NoSweepClosure =>
          /\ Frame.seq_num > Before.last_seq + 1
          /\ After.last_seq = Before.last_seq]_vars

\* a HEARTBEAT with sequence 3 arrived while DATA 2 was buffered: L is 3 and the buffer
\* holds 2
C35_Witness ==
    /\ Len(arrivals) = 2
    /\ arrivals[1].packet = DataFrame(3001, 2)
    /\ arrivals[2].packet = HeartbeatFrame(3001, 3)
    /\ device_states[3001].last_seq = 3
    /\ BufferKeys(device_states[3001].buffer) = {2}
    /\ HoldsStale(device_states[3001])

\* C36: in every state, a device whose gap_start_time is set has a frame in its buffer
\* (an empty buffer has no gap timer), so that an arriving frame that finds the gap
\* stalled always finds a buffered frame to end the gap at
C36_TimerImpliesPending ==
    /\ [](\A d \in DOMAIN device_states :
             device_states[d].gap_start_time # None => device_states[d].buffer # <<>>)
    /\ [][ArrivedData /\ last_op'.path = "timeout" => Before.buffer # <<>>]_vars

\* the buffer of a device emptied after its gap timer had been started, and the timer
\* is none again
C36_Witness ==
    /\ last_op.kind = "sweep" /\ last_op.closures # <<>>
    /\ 3001 \in DOMAIN device_states
    /\ device_states[3001].buffer = <<>>
    /\ device_states[3001].gap_start_time = None
    /\ rows # <<>>

(***************************************************************************)
(* What becomes of an accepted frame                                       *)
(***************************************************************************)
\* the step wrote a row for the arriving frame: its sequence as DATA, not synthesized
WroteFrame ==
    \E i \in 1..Len(NewRows) :
        /\ NewRows[i].device_id = Frame.device_id /\ NewRows[i].seq_num = Frame.seq_num
        /\ NewRows[i].msg_type = "DATA" /\ NewRows[i].is_gap = 0

\* C37 as stated: every decoded DATA frame, once handled, has a row of its own
\* (in-order or flagged duplicate) or is in the buffer of its device, also when it is a
\* future frame that arrives while the gap is stalled
C37_NoFrameDropped ==
    [][ArrivedData => WroteFrame \/ Buffered(After, Frame)]_vars

\* C37, what the code gives: the same for every frame that does not take the timeout
\* path
C37_KeptUnlessStalled ==
    [][ArrivedData /\ last_op'.path # "timeout" => WroteFrame \/ Buffered(After, Frame)]_vars

\* DATA 2 arrived after DATA 3 had waited more than T_gap: 3 was taken as the right
\* end, position 2 was synthesized, and the real frame 2 has no row of its own and is
\* not in the buffer
C37_Witness ==
    /\ Len(arrivals) = 2
    /\ arrivals[1].packet = DataFrame(3001, 3) /\ arrivals[2].packet = DataFrame(3001, 2)
    /\ last_op.kind = "receive" /\ last_op.path = "timeout"
    /\ device_states[3001].last_seq = 3
    /\ device_states[3001].buffer = <<>>
    /\ \E i \in 1..Len(rows) : rows[i].seq_num = 2 /\ rows[i].is_gap = 1
    /\ \A i \in 1..Len(rows) : rows[i].seq_num = 2 => rows[i].is_gap = 1

\* the HEARTBEAT rows the step wrote are rows of the arriving frame, with no values
HeartbeatRowsOfFrame ==
    \A i \in HeartbeatRows :
        /\ NewRows[i].device_id = Frame.device_id /\ NewRows[i].seq_num = Frame.seq_num
        /\ NewRows[i].vals = NULLS

\* C38 as stated: every accepted HEARTBEAT frame appends exactly one row of kind
\* HEARTBEAT with all three values null to the primary log, whether it is a duplicate,
\* in order or spans a gap
C38_OneRowPerHeartbeat ==
    [][ArrivedHeartbeat => Cardinality(HeartbeatRows) = 1 /\ HeartbeatRowsOfFrame]_vars

\* C38, what the code gives: one such row for a duplicate or in-order HEARTBEAT, and two
\* for a HEARTBEAT that spans a gap, both flagged as a gap
C38_TwoRowsOverGap ==
    [][ArrivedHeartbeat =>
          /\ HeartbeatRowsOfFrame
          /\ Cardinality(HeartbeatRows) = IF last_op'.path = "heartbeat gap" THEN 2 ELSE 1
          /\ last_op'.path = "heartbeat gap" =>
                \A i \in HeartbeatRows : NewRows[i].is_gap = 1 /\ NewRows[i].is_dup = 0]_vars

\* INIT 0 then HEARTBEAT 2: the log holds two HEARTBEAT rows for sequence 2
C38_Witness ==
    /\ Len(arrivals) = 2
    /\ arrivals[1].packet = InitFrame(3001, 0)
    /\ arrivals[2].packet = HeartbeatFrame(3001, 2)
    /\ last_op.path = "heartbeat gap"
    /\ Cardinality({i \in 1..Len(rows) :
                        rows[i].msg_type = "HEARTBEAT" /\ rows[i].seq_num = 2}) = 2

(***************************************************************************)
(* Devices are handled apart                                               *)
(***************************************************************************)
\* the devices known before the step, but for the sender of the arriving frame
Others == DOMAIN device_states \ {Frame.device_id}

\* C39: handling a decoded frame of device d changes the record of no other device: L,
\* last known values, buffer, gap timer and counters of every other device stay as they
\* were, unless the periodic sweep that ends the same iteration closed that device's
\* gap; the rows the step writes are appended after those already written, and are rows
\* of d or of a device the sweep closed a gap of
C39_DeviceIsolation ==
    [][Arrived =>
          /\ \A e \in Others :
                /\ e \in DOMAIN device_states'
                /\ device_states'[e] # device_states[e] => SweepDue /\ SweptHere(e)
          /\ Len(rows') >= Len(rows) /\ SubSeq(rows', 1, Len(rows)) = rows
          /\ \A i \in 1..Len(NewRows) :
                NewRows[i].device_id # Frame.device_id =>
                    SweepDue /\ SweptHere(NewRows[i].device_id)
          /\ Len(device_order') >= Len(device_order)
          /\ SubSeq(device_order', 1, Len(device_order)) = device_order]_vars

\* device 3002 sent DATA while device 3001 had a frame waiting in its buffer, and the
\* record of 3001 is as the frame of 3001 left it; the only row is the one of 3002
C39_Witness ==
    /\ Len(arrivals) = 2
    /\ arrivals[1].packet = DataFrame(3001, MaxSeq)
    /\ arrivals[2].packet = InitFrame(3002, 0)
    /\ last_op.kind = "receive" /\ last_op.dev = 3002
    /\ device_order = <<3001, 3002>>
    /\ device_states[3001].packets = 1
    /\ device_states[3001].last_seq = -1
    /\ BufferKeys(device_states[3001].buffer) = {MaxSeq}
    /\ device_states[3002].packets = 1
    /\ device_states[3002].last_seq = 0

\* the third datagram, a frame of device 3002, ended with a sweep that released the
\* frame device 3001 had waiting: rows of both devices were written in that iteration
C39_WitnessSweep ==
    /\ Len(arrivals) = 3
    /\ arrivals[1].packet = DataFrame(3001, MaxSeq)
    /\ arrivals[3].packet.device_id = 3002
    /\ last_op.kind = "receive" /\ last_op.dev = 3002
    /\ \E i \in 1..Len(last_op.closures) :
          last_op.closures[i].dev = 3001 /\ last_op.closures[i].trigger = "sweep"
    /\ device_states[3001].buffer = <<>>
    /\ device_states[3001].last_seq = MaxSeq

(***************************************************************************)
(* Leaving the ingress loop                                                *)
(***************************************************************************)
\* the step left the ingress loop
Exited == running /\ ~running'
\* frames are waiting in the buffer of some device
Pending == \E d \in DOMAIN device_states : device_states[d].buffer # <<>>

\* C40 as stated: once the ingress loop has exited, by auto-shutdown or by an interrupt,
\* the reorder buffer of every device is empty: every frame still buffered was emitted
\* before the metrics summary is written
C40_DrainOnExit ==
    [](~running => ~Pending)

\* C40, what the code gives: leaving the loop writes no row and changes no device
\* record, so the frames waiting at that moment stay in the buffers for ever
C40_ExitEmitsNothing ==
    /\ [][Exited => rows' = rows /\ batch_rows' = batch_rows
                     /\ device_states' = device_states]_vars
    /\ [][~running => UNCHANGED vars]_vars

\* auto-shutdown after DATA 1 and DATA 3: the sweep released frame 1 one second before
\* the threshold was reached, and frame 3 is still in the buffer after the exit
C40_Witness ==
    /\ ~running /\ last_op.kind = "shutdown"
    /\ auto_shutdown = auto_shutdown_timeout
    /\ now - last_packet_time = auto_shutdown_timeout
    /\ device_states[3001].last_seq = 1
    /\ BufferKeys(device_states[3001].buffer) = {3}
    /\ \A i \in 1..Len(rows) : rows[i].seq_num # 3

\* an interrupt right after DATA 2 was buffered: the log is empty and frame 2 is still in
\* the buffer
C40_WitnessInterrupt ==
    /\ ~running /\ last_op.kind = "interrupt"
    /\ Len(arrivals) = 1 /\ arrivals[1].packet = DataFrame(3001, 2)
    /\ BufferKeys(device_states[3001].buffer) = {2}
    /\ rows = <<>>

====
